---- MODULE Spec2Model ----
(***************************************************************************)
(* A model of the Pyobfuscate passes: the name registry (Naming), the      *)
(* integer-literal encoders (NumberObscureStrategy and its subclasses),    *)
(* the for->while lowering (ForToWhileGeneric with PlainStrategy or        *)
(* CollatzStrategy) and the identifier renamer (Renamer).                  *)
(*                                                                         *)
(* Each component has its own specification (SpecNaming, SpecFeistel, ...) *)
(* over the variables of that component; the variables of the other        *)
(* components stay at their idle values.                                   *)
(***************************************************************************)
EXTENDS Integers, Sequences, FiniteSets, TLC

VARIABLES
    \* ---- Naming (src/NameTracker/naming.py)
    used_names,        \* Naming.used_names
    generated_names,   \* Naming.generated_names
    returned,          \* history: one record per get_name call, in call order
    \* ---- NumberObscureStrategy (src/Encrpytion/number_obscure_strategies.py)
    strategy,          \* the strategy instance: its class and its attributes
    value,             \* the literal last handed to obfuscate()
    key,               \* the key string drawn for that literal (XorString)
    expr,              \* the expression obfuscate() returned
    decoded,           \* what that expression evaluates to in the output program
    \* ---- ForToWhileGeneric (src/LoopObfuscation/for_to_while_generic.py)
    loop,              \* the strategy instance made for the for loop
    lowered,           \* the statements visit_For returned, and the helpers
    env,               \* the output program's variables while it runs
    pc,                \* where the output program is
    visited,           \* the loop-variable values the original body saw
    \* ---- Renamer (src/Renaming/renamer.py)
    namespace,         \* Renamer.namespace
    to_rename,         \* Renamer.to_rename
    mapping,           \* Renamer.mapping
    module_tree,       \* the tree handed to apply()
    renamed_tree,      \* the tree apply() returns
    drawn,             \* history: the candidates random produced during apply()
    phase,             \* "idle", "constructed" or "done"
    \* ---- JunkInjector (src/Injectors/inject_junk.py)
    junk_vars,         \* JunkInjector.junk_vars
    module_vars,       \* the module-level variables of the output program
    touched,           \* history: the names the junk statements read or wrote
    junk_count,        \* history: the number of junk statements run so far
    junk_status,       \* "ok", or the exception a junk statement raised
    \* ---- ConditionalInjector (src/Injectors/conditional_injector.py)
    wrap_body,         \* the module body handed to _inject_in_body
    wrap_new_body,     \* the body it returned
    wrap_env,          \* the variables of the program before the body runs
    wrap_ran,          \* how the body and the new body ran from wrap_env
    \* ---- IdentityFuncInjector (src/Injectors/identity_injector.py)
    ident_node,        \* the Name or Constant node visited
    ident_env,         \* the variables of the program where the node is evaluated
    ident_cls,         \* the class of the strategy the injector holds
    ident_new,         \* the node the visit returned
    \* ---- Ob_For (src/LoopObfuscation/ob_for.py)
    ob_cls,            \* the strategy_class Ob_For was built with
    ob_tree,           \* the module body handed to apply()
    ob_passes,         \* history: the module after each unit of self.passes
    ob_status,         \* "idle", "built", "done", or the exception apply() raised
    \* ---- main() of obfuscate.py
    main_line,         \* the statement of main() that runs next, as an index of MainStatements
    main_done,         \* the statements main() has executed, each with the names it got from get_name
    main_namespace,    \* the set handed to Renamer(...)
    main_status,       \* running, done, or the exception main() ended with
    \* ---- the input and output modules of Ob_For at run time
    ran_input,         \* how the module handed to Ob_For.apply runs
    ran_passes,        \* how the module returned by each unit of Ob_For runs
    \* ---- JunkInjector.apply on a module with a function
    junk_tree,         \* the module JunkInjector.apply returned
    junk_ran,          \* how that module runs
    \* ---- NumberObscurerInjector.apply on a module (main lines 26-27)
    num_before,        \* the module handed to the last apply()
    num_tree,          \* the module: the input, then what each apply() returned
    num_applied        \* the strategies of the injectors whose apply() has returned

namingVars == <<used_names, generated_names, returned>>
numberVars == <<strategy, value, key, expr, decoded>>
loopVars == <<loop, lowered, env, pc, visited>>
renamerVars ==
    <<namespace, to_rename, mapping, module_tree, renamed_tree, drawn, phase>>
junkVars == <<junk_vars, module_vars, touched, junk_count, junk_status>>
wrapVars == <<wrap_body, wrap_new_body, wrap_env, wrap_ran>>
identVars == <<ident_node, ident_env, ident_cls, ident_new>>
obforVars == <<ob_cls, ob_tree, ob_passes, ob_status>>
mainVars == <<main_line, main_done, main_namespace, main_status>>
runVars == <<ran_input, ran_passes>>
junkFnVars == <<junk_tree, junk_ran>>
applyVars == <<num_before, num_tree, num_applied>>

vars == <<used_names, generated_names, returned,
          strategy, value, key, expr, decoded,
          loop, lowered, env, pc, visited,
          namespace, to_rename, mapping, module_tree, renamed_tree, drawn,
          phase,
          junk_vars, module_vars, touched, junk_count, junk_status,
          wrap_body, wrap_new_body, wrap_env, wrap_ran,
          ident_node, ident_env, ident_cls, ident_new,
          ob_cls, ob_tree, ob_passes, ob_status,
          main_line, main_done, main_namespace, main_status,
          ran_input, ran_passes,
          junk_tree, junk_ran,
          num_before, num_tree, num_applied>>

\* The idle values of a component that a specification does not run.
NoStrategy == [cls |-> "None"]
NoValue == [node |-> "None"]
IdleNaming == used_names = {} /\ generated_names = {} /\ returned = <<>>
IdleNumber ==
    /\ strategy = NoStrategy
    /\ value = NoValue
    /\ key = <<>>
    /\ expr = NoValue
    /\ decoded = NoValue
NoLoop == [cls |-> "None"]
IdleLoop ==
    /\ loop = NoLoop
    /\ lowered = NoLoop
    /\ env = <<>>
    /\ pc = "idle"
    /\ visited = <<>>
IdleRenamer ==
    /\ namespace = {}
    /\ to_rename = {}
    /\ mapping = <<>>
    /\ module_tree = <<>>
    /\ renamed_tree = <<>>
    /\ drawn = <<>>
    /\ phase = "idle"
IdleJunk ==
    /\ junk_vars = <<>>
    /\ module_vars = <<>>
    /\ touched = {}
    /\ junk_count = 0
    /\ junk_status = "ok"
IdleWrap ==
    /\ wrap_body = <<>>
    /\ wrap_new_body = <<>>
    /\ wrap_env = <<>>
    /\ wrap_ran = <<>>
IdleObFor ==
    /\ ob_cls = "None"
    /\ ob_tree = <<>>
    /\ ob_passes = <<>>
    /\ ob_status = "idle"
IdleRun ==
    /\ ran_input = [status |-> "None"]
    /\ ran_passes = <<>>
IdleApply ==
    /\ num_before = <<>>
    /\ num_tree = <<>>
    /\ num_applied = <<>>
IdleJunkApply ==
    /\ junk_tree = <<>>
    /\ junk_ran = [status |-> "None"]
IdleMain ==
    /\ main_line = 1
    /\ main_done = <<>>
    /\ main_namespace = {}
    /\ main_status = "idle"
IdleIdent ==
    /\ ident_node = [node |-> "None"]
    /\ ident_env = <<>>
    /\ ident_cls = "None"
    /\ ident_new = [node |-> "None"]

(***************************************************************************)
(* Naming                                                                  *)
(***************************************************************************)

\* Bound: the number of get_name calls in one run.
MaxCalls == 4

\* The bases the passes ask for ("a", "i" by CollatzStrategy; "a1" is a base
\* whose candidates can spell the same string as a candidate of "a").
Bases == {"a", "i", "a1"}

\* The nodes a tree handed to analyze() is made of.  A Lambda's parameters are
\* ast.arg nodes, for which Naming has no visitor.
NodePool ==
    { [kind |-> "Name",        name |-> "a0", args |-> <<>>],
      [kind |-> "Name",        name |-> "a10", args |-> <<>>],
      [kind |-> "FunctionDef", name |-> "i0", args |-> <<"a1", "i1">>],
      [kind |-> "ClassDef",    name |-> "a2", args |-> <<>>],
      [kind |-> "Lambda",      name |-> "",   args |-> <<"a3">>] }

Range(s) == { s[k] : k \in 1..Len(s) }

\* visit_Name, visit_FunctionDef, visit_ClassDef: the names one node adds.
VisitedNames(node) ==
    CASE node.kind = "Name"        -> {node.name}
      [] node.kind = "FunctionDef" -> {node.name} \cup Range(node.args)
      [] node.kind = "ClassDef"    -> {node.name}
      [] OTHER                     -> {}

\* f"{base}{i}"
Candidate(base, i) == base \o ToString(i)

\* A get_name that hands out the candidate without looking at the two sets.
FirstFreeUnchecked(base, i, used, gen) == Candidate(base, i)

\* The while True loop of get_name, entered with counter i.
RECURSIVE FirstFree(_, _, _, _)
FirstFree(base, i, used, gen) ==
    IF Candidate(base, i) \notin used /\ Candidate(base, i) \notin gen
    THEN Candidate(base, i)
    ELSE FirstFree(base, i + 1, used, gen)

\* get_namespace(): a copy of used_names.
get_namespace == used_names

\* analyze(tree): the walk adds the names of every node of the tree.
analyze(tree) ==
    /\ used_names' = used_names \cup UNION { VisitedNames(n) : n \in tree }
    /\ UNCHANGED <<generated_names, returned>>

\* The Naming instance as a value.
NamingNow ==
    [used |-> used_names, gen |-> generated_names, returned |-> returned]

\* get_name(base) on the instance nm: the instance after the call.
GetNameFrom(nm, base) ==
    LET candidate == FirstFree(base, 0, nm.used, nm.gen)
    IN [gen |-> nm.gen \cup {candidate},
        used |-> nm.used \cup {candidate},
        returned |-> Append(nm.returned,
                        [base |-> base, name |-> candidate,
                         wasUsed |-> candidate \in nm.used])]

\* get_name called once per base of the sequence, in order
RECURSIVE GetNamesFrom(_, _)
GetNamesFrom(nm, bases) ==
    IF bases = <<>> THEN nm
    ELSE GetNamesFrom(GetNameFrom(nm, Head(bases)), Tail(bases))

\* the shared instance becomes nm
NamingBecomes(nm) ==
    /\ used_names' = nm.used
    /\ generated_names' = nm.gen
    /\ returned' = nm.returned

\* get_name(base)
get_name(base) == NamingBecomes(GetNameFrom(NamingNow, base))

InitNaming ==
    /\ used_names = {}
    /\ generated_names = {}
    /\ returned = <<>>
    /\ IdleNumber
    /\ IdleLoop
    /\ IdleApply
    /\ IdleJunkApply
    /\ IdleRun
    /\ IdleMain
    /\ IdleObFor
    /\ IdleIdent
    /\ IdleWrap
    /\ IdleJunk
    /\ IdleRenamer

Analyze ==
    \E tree \in SUBSET NodePool :
        analyze(tree) /\ UNCHANGED <<numberVars, loopVars, renamerVars, junkVars, wrapVars, identVars, obforVars, mainVars, runVars, junkFnVars, applyVars>>

GetName ==
    \E base \in Bases :
        /\ Len(returned) < MaxCalls
        /\ get_name(base)
        /\ UNCHANGED <<numberVars, loopVars, renamerVars, junkVars, wrapVars, identVars, obforVars, mainVars, runVars, junkFnVars, applyVars>>

NextNaming == Analyze \/ GetName

SpecNaming == InitNaming /\ [][NextNaming]_vars

\* C1: over any sequence of analyze and get_name calls no two get_name calls
\* return the same string, no returned string was in the used-name set when
\* it was returned, every returned name is in get_namespace() from then on,
\* and the used-name set only grows.
NamingFreshAndKept ==
    /\ [](/\ \A i, j \in 1..Len(returned) :
                i # j => returned[i].name # returned[j].name
          /\ \A i \in 1..Len(returned) :
                /\ ~returned[i].wasUsed
                /\ returned[i].name \in get_namespace)
    /\ [][used_names \subseteq used_names']_vars

\* Two calls with base "a" after analyze() recorded a0: the second candidate
\* loop had to skip names.
NamingSkipWitness ==
    /\ "a0" \in used_names /\ "a0" \notin generated_names
    /\ \E i, j \in 1..Len(returned) :
          /\ i < j
          /\ returned[i].base = "a" /\ returned[j].base = "a"
          /\ returned[i].name = "a1" /\ returned[j].name = "a2"

(***************************************************************************)
(* Integer arithmetic of the encoders.  A Python int v is held as the pair *)
(* [hi |-> v >> 16, lo |-> v & 0xffff] (hi any integer, lo in 0..65535):   *)
(* 0 <= v < 2^32 is 0 <= hi < 2^16, and a negative v has a negative hi.    *)
(***************************************************************************)

\* x ^ y for 0 <= x, y < 2^w
RECURSIVE XorBits(_, _, _)
XorBits(x, y, w) ==
    IF w = 0 THEN 0
    ELSE (((x % 2) + (y % 2)) % 2) + 2 * XorBits(x \div 2, y \div 2, w - 1)

\* x | y for 0 <= x, y < 2^w
RECURSIVE OrBits(_, _, _)
OrBits(x, y, w) ==
    IF w = 0 THEN 0
    ELSE (IF x % 2 = 1 \/ y % 2 = 1 THEN 1 ELSE 0)
         + 2 * OrBits(x \div 2, y \div 2, w - 1)

\* x & 0xffff for x >= 0
Mask16(x) == x % 65536

\* ((x << 3) | (x >> (16 - 3))) & mask16 for 0 <= x < 2^16
RotateLeft3(x) == Mask16(OrBits(x * 8, x \div 8192, 19))

\* (x * m) & mask16 for 0 <= x, m < 2^16, without leaving 31 bits:
\* x = 256*xh + xl, so x*m = 2^16*(...) + 256*((xh*m) mod 256) + xl*m (mod 2^16).
MulMask16(x, m) ==
    Mask16((((x \div 256) * m) % 256) * 256 + (x % 256) * m)

\* a range test that forgets the lower end
InRange32NoLower(v) == v.hi < 65536

\* 0 <= value < (1 << 32)
InRange32(v) == 0 <= v.hi /\ v.hi < 65536

\* (value >> j) & 1 for 0 <= value < 2^32, 0 <= j < 32
Bit(v, j) ==
    IF j < 16 THEN (v.lo \div (2 ^ j)) % 2 ELSE (v.hi \div (2 ^ (j - 16))) % 2

\* the int whose only set bit is bit j (j < 32), and 0 when b = 0: b << j
ShiftBit(b, j) ==
    IF j < 16 THEN [hi |-> 0, lo |-> b * (2 ^ j)]
    ELSE [hi |-> b * (2 ^ (j - 16)), lo |-> 0]

\* x | y for 0 <= x, y < 2^32
Or32(x, y) == [hi |-> OrBits(x.hi, y.hi, 16), lo |-> OrBits(x.lo, y.lo, 16)]

\* v & 0xffffffff for v >= 0
Mask32(v) == [hi |-> v.hi % 65536, lo |-> v.lo]

\* the int of a pair that fits TLC's integers
IntOf(v) == v.hi * 65536 + v.lo

\* the pair of an int
PairOf(n) == [hi |-> n \div 65536, lo |-> n % 65536]

(***************************************************************************)
(* Text: a string is the sequence of its character codes.                  *)
(***************************************************************************)

RECURSIVE DecDigits(_)
DecDigits(n) ==
    IF n < 10 THEN <<48 + n>>
    ELSE Append(DecDigits(n \div 10), 48 + (n % 10))

\* str(n), and an integer formatted into an f-string
Str(n) == IF n < 0 THEN <<45>> \o DecDigits(-n) ELSE DecDigits(n)

RECURSIVE HexDigits(_)
HexDigits(n) ==
    LET d == n % 16
        c == IF d < 10 THEN 48 + d ELSE 87 + d
    IN IF n < 16 THEN <<c>> ELSE Append(HexDigits(n \div 16), c)

\* hex(n) for n >= 0: "0x" and the lower-case digits
Hex(n) == <<48, 120>> \o HexDigits(n)

IsDigit(c) == 48 <= c /\ c <= 57

RECURSIVE DigitsValue(_, _, _)
DigitsValue(t, radix, acc) ==
    IF t = <<>> THEN acc
    ELSE LET c == Head(t)
             d == IF IsDigit(c) THEN c - 48 ELSE c - 87
         IN DigitsValue(Tail(t), radix, acc * radix + d)

\* the value of an integer literal of the generated source: decimal, or hex
\* after "0x"
Literal(t) ==
    IF Len(t) > 2 /\ t[1] = 48 /\ t[2] = 120
    THEN DigitsValue(SubSeq(t, 3, Len(t)), 16, 0)
    ELSE DigitsValue(t, 10, 0)

\* int(text): an optional sign and decimal digits; anything else raises
\* ValueError.
ParseInt(t) ==
    LET signed == t # <<>> /\ Head(t) \in {43, 45}
        body == IF signed THEN Tail(t) ELSE t
    IN IF body = <<>> \/ \E k \in 1..Len(body) : ~IsDigit(body[k])
       THEN [node |-> "ValueError"]
       ELSE [node |-> "int",
             value |-> IF signed /\ Head(t) = 45
                       THEN 0 - DigitsValue(body, 10, 0)
                       ELSE DigitsValue(body, 10, 0)]

(***************************************************************************)
(* SimpleFeistelNumberStrategy                                             *)
(***************************************************************************)

\* self.rounds = 4
SimpleRounds == 4

\* self.key16 = 0b1011001011001011
PresetKey16 == 45771

\* F = ((x << 3) | (x >> (16 - 3))) & mask16 with x = R ^ self.key16
SimpleF(r, key16) == RotateLeft3(XorBits(r, key16, 16))

\* for _ in range(self.rounds): L, R = R, (L ^ F) & mask16
RECURSIVE SimpleEncodeRounds(_, _, _, _)
SimpleEncodeRounds(L, R, key16, n) ==
    IF n = 0 THEN <<L, R>>
    ELSE SimpleEncodeRounds(R, Mask16(XorBits(L, SimpleF(R, key16), 16)),
                            key16, n - 1)

\* SimpleFeistelNumberStrategy.obfuscate(value)
SimpleFeistelObfuscate(self, v) ==
    IF ~InRange32(v)
    THEN [node |-> "Constant", value |-> v]
    ELSE LET lr == SimpleEncodeRounds(v.hi, v.lo, self.key16, self.rounds)
             encoded == Or32([hi |-> lr[1], lo |-> 0], [hi |-> 0, lo |-> lr[2]])
         IN [node |-> "Call", func |-> self.decoder_name, arg |-> encoded]

\* SimpleFeistelNumberStrategy.get_decoder(): the function definition parsed
\* from the f-string, with the name, the round count and hex(key16) in it.
SimpleFeistelGetDecoder(self) ==
    [cls |-> "SimpleFeistel", name |-> self.decoder_name,
     rounds |-> Str(self.rounds), key |-> Hex(self.key16)]

\* a decoder whose rounds replay the encoder's (L, R = R, L ^ F(R))
SimpleDecodeRoundsForward(L, R, key16, n) ==
    SimpleEncodeRounds(L, R, key16, n)

\* the decoder's loop: tmp = L ^ key; F = rot3(tmp); L, R = R ^ F, L
RECURSIVE SimpleDecodeRounds(_, _, _, _)
SimpleDecodeRounds(L, R, key16, n) ==
    IF n = 0 THEN <<L, R>>
    ELSE SimpleDecodeRounds(XorBits(R, SimpleF(L, key16), 16), L, key16, n - 1)

\* the generated decode_num(x) of SimpleFeistelNumberStrategy
SimpleFeistelDecode(dec, x) ==
    LET lr == SimpleDecodeRounds(x.hi, x.lo, Literal(dec.key), Literal(dec.rounds))
    IN Mask32(Or32([hi |-> lr[1], lo |-> 0], [hi |-> 0, lo |-> lr[2]]))

(***************************************************************************)
(* FeistelNumberStrategy                                                   *)
(***************************************************************************)

\* rounds: int = 3
DefaultRounds == 3

\* pow(a, -1, m) by the extended Euclidean algorithm: (g, x) with a*x = g mod m
RECURSIVE ExtGcd(_, _)
ExtGcd(a, b) ==
    IF b = 0 THEN <<a, 1, 0>>
    ELSE LET r == ExtGcd(b, a % b)
         IN <<r[1], r[3], r[2] - (a \div b) * r[3]>>

ModInverse(a, m) == ExtGcd(a, m)[2] % m

\* F = rot3(((R * salt_mul) & mask16) ^ salt_xor)
FeistelF(r, salt_mul, salt_xor) ==
    RotateLeft3(XorBits(MulMask16(r, salt_mul), salt_xor, 16))

\* the unpacking as a high/low split
UnpackHighLow(v, i, L, R) == <<v.hi, v.lo>>

\* for i in range(16): L |= ((value >> (2*i)) & 1) << i
\*                     R |= ((value >> (2*i + 1)) & 1) << i
\* Bit i of L and of R is still 0 when it is set, so |= adds it.
RECURSIVE UnpackEvenOdd(_, _, _, _)
UnpackEvenOdd(v, i, L, R) ==
    IF i = 16 THEN <<L, R>>
    ELSE UnpackEvenOdd(v, i + 1, L + Bit(v, 2 * i) * (2 ^ i),
                       R + Bit(v, 2 * i + 1) * (2 ^ i))

\* for i in range(16): encoded |= ((L >> i) & 1) << (2*i)
\*                     encoded |= ((R >> i) & 1) << (2*i + 1)
RECURSIVE Interleave(_, _, _, _)
Interleave(L, R, i, acc) ==
    IF i = 16 THEN acc
    ELSE LET lb == ShiftBit((L \div (2 ^ i)) % 2, 2 * i)
             rb == ShiftBit((R \div (2 ^ i)) % 2, 2 * i + 1)
         IN Interleave(L, R, i + 1,
                [hi |-> acc.hi + lb.hi + rb.hi, lo |-> acc.lo + lb.lo + rb.lo])

\* for _ in range(self.rounds): L, R = R, (L ^ F) & mask16
RECURSIVE FeistelEncodeRounds(_, _, _, _, _)
FeistelEncodeRounds(L, R, salt_mul, salt_xor, n) ==
    IF n <= 0 THEN <<L, R>>
    ELSE FeistelEncodeRounds(R,
             Mask16(XorBits(L, FeistelF(R, salt_mul, salt_xor), 16)),
             salt_mul, salt_xor, n - 1)

\* FeistelNumberStrategy.obfuscate(value)
FeistelObfuscate(self, v) ==
    IF ~InRange32(v)
    THEN [node |-> "Constant", value |-> v]
    ELSE LET u == UnpackEvenOdd(v, 0, 0, 0)
             lr == FeistelEncodeRounds(u[1], u[2], self.salt_mul,
                                       self.salt_xor, self.rounds)
             encoded == Mask32(Interleave(lr[1], lr[2], 0, [hi |-> 0, lo |-> 0]))
         IN [node |-> "Call", func |-> self.decoder_name, arg |-> encoded]

\* FeistelNumberStrategy.get_decoder()
FeistelGetDecoder(self) ==
    [cls |-> "Feistel", name |-> self.decoder_name,
     rounds |-> Str(self.rounds), salt_mul |-> Str(self.salt_mul),
     salt_xor |-> Str(self.salt_xor)]

\* the decoder's loop: F from L; L, R = (R ^ F) & 0xffff, L
RECURSIVE FeistelDecodeRounds(_, _, _, _, _)
FeistelDecodeRounds(L, R, salt_mul, salt_xor, n) ==
    IF n <= 0 THEN <<L, R>>
    ELSE FeistelDecodeRounds(
             Mask16(XorBits(R, FeistelF(L, salt_mul, salt_xor), 16)), L,
             salt_mul, salt_xor, n - 1)

\* the generated decode_num(x) of FeistelNumberStrategy
FeistelDecode(dec, x) ==
    LET u == UnpackEvenOdd(x, 0, 0, 0)
        lr == FeistelDecodeRounds(u[1], u[2], Literal(dec.salt_mul),
                                  Literal(dec.salt_xor), Literal(dec.rounds))
    IN Mask32(Interleave(lr[1], lr[2], 0, [hi |-> 0, lo |-> 0]))

(***************************************************************************)
(* XorStringNumberStrategy                                                 *)
(***************************************************************************)

\* [chr(ord(s[i]) ^ ord(key[i])) for i in range(n)]
XorChars(s, k, n) == [i \in 1..n |-> XorBits(s[i], k[i], 8)]

\* an obfuscate that encodes the digits of abs(value)
XorStringObfuscateAbs(self, v, key_chars) ==
    LET a == IF IntOf(v) < 0 THEN 0 - IntOf(v) ELSE IntOf(v)
        s == Str(a)
        n == Len(s)
        k == SubSeq(key_chars, 1, n)
    IN [node |-> "Call", func |-> self.decoder_name,
        arg |-> XorChars(s, k, n) \o k]

\* XorStringNumberStrategy.obfuscate(value), key_chars being the n random
\* characters chr(random.getrandbits(8))
XorStringObfuscate(self, v, key_chars) ==
    LET s == Str(IntOf(v))
        n == Len(s)
        encoded == XorChars(s, key_chars, n) \o key_chars
    IN [node |-> "Call", func |-> self.decoder_name, arg |-> encoded]

\* XorStringNumberStrategy.get_decoder()
XorStringGetDecoder(self) == [cls |-> "XorString", name |-> self.decoder_name]

\* the generated decode_num(encoded) of XorStringNumberStrategy
XorStringDecode(dec, encoded) ==
    LET n == Len(encoded) \div 2
        xor_str == SubSeq(encoded, 1, n)
        k == SubSeq(encoded, n + 1, Len(encoded))
    IN ParseInt(XorChars(xor_str, k, n))

(***************************************************************************)
(* A strategy instance at work: construction, obfuscate() on the literals  *)
(* of the tree, and the evaluation of the returned expression in the       *)
(* output program, where get_decoder()'s definition is bound.              *)
(***************************************************************************)

\* Bound: the round counts FeistelNumberStrategy is constructed with are
\* 0..MaxRounds.
MaxRounds == 4

\* Bound: the literals handed to XorStringNumberStrategy are -MaxAbs..MaxAbs
\* and a few longer ones.
MaxAbs == 11

\* Outcomes of random.getrandbits(16) that the model draws.
RandBits16 == {0, 2, 45770, 65535}

\* Outcomes of random.getrandbits(8) that the model draws: 0, a value equal
\* to a digit's code, one with the high bit set, and 255.
RandBits8 == {0, 49, 128, 255}

\* The 16-bit halves the sampled 32-bit literals are made of.
HalfSamples == {0, 1, 42, 32768, 45771, 65535}

\* Literals in [0, 2^32): 0, 42, 2^16 - 1, 2^16, 2^31, 2^32 - 1 among them.
InRangeLiterals == { [hi |-> h, lo |-> l] : h \in HalfSamples, l \in HalfSamples }

\* Literals outside [0, 2^32): -1, -2^16, -2^32, 2^32, 2^32 + 42, 2^33 - 1 ...
OutOfRangeLiterals ==
    { [hi |-> h, lo |-> l] : h \in {-65536, -1, 65536, 131071}, l \in {0, 42, 65535} }

\* Literals handed to XorStringNumberStrategy.
TextLiterals == { PairOf(n) : n \in (0 - MaxAbs)..MaxAbs \cup {-100, 100, 999} }

\* strategy.obfuscate(value)
obfuscate(self, v, key_chars) ==
    CASE self.cls = "SimpleFeistel" -> SimpleFeistelObfuscate(self, v)
      [] self.cls = "Feistel"       -> FeistelObfuscate(self, v)
      [] self.cls = "XorString"     -> XorStringObfuscate(self, v, key_chars)

\* strategy.get_decoder()
get_decoder(self) ==
    CASE self.cls = "SimpleFeistel" -> SimpleFeistelGetDecoder(self)
      [] self.cls = "Feistel"       -> FeistelGetDecoder(self)
      [] self.cls = "XorString"     -> XorStringGetDecoder(self)
      [] self.cls = "Template"      -> [cls |-> "None", name |-> ""]

\* The value of expression e in a module whose first definition is dec.
EvalExpr(e, dec) ==
    IF e.node = "Constant" THEN [node |-> "int", value |-> e.value]
    ELSE IF e.func # dec.name THEN [node |-> "NameError"]
    ELSE CASE dec.cls = "SimpleFeistel" ->
                  [node |-> "int", value |-> SimpleFeistelDecode(dec, e.arg)]
           [] dec.cls = "Feistel" ->
                  [node |-> "int", value |-> FeistelDecode(dec, e.arg)]
           [] dec.cls = "XorString" ->
                  LET r == XorStringDecode(dec, e.arg)
                  IN IF r.node = "int"
                     THEN [node |-> "int", value |-> PairOf(r.value)]
                     ELSE r

\* the name the constructor just got from naming.get_name("decode_num")
LastName(names) == names[Len(names)].name

\* SimpleFeistelNumberStrategy.__init__(naming)
NewSimpleFeistel ==
    /\ strategy = NoStrategy
    /\ get_name("decode_num")
    /\ strategy' = [cls |-> "SimpleFeistel", rounds |-> SimpleRounds,
                    key16 |-> PresetKey16, decoder_name |-> LastName(returned')]
    /\ UNCHANGED <<value, key, expr, decoded, loopVars, renamerVars, junkVars, wrapVars, identVars, obforVars, mainVars, runVars, junkFnVars, applyVars>>

\* FeistelNumberStrategy.__init__(naming, rounds)
NewFeistel ==
    \E r1 \in RandBits16, r2 \in RandBits16, rounds \in 0..MaxRounds :
        /\ strategy = NoStrategy
        /\ get_name("decode_num")
        /\ strategy' = [cls |-> "Feistel", rounds |-> rounds,
                        salt_mul |-> OrBits(r1, 1, 16),
                        salt_xor |-> Mask16(r2),
                        salt_mul_inv |-> ModInverse(OrBits(r1, 1, 16), 65536),
                        decoder_name |-> LastName(returned')]
        /\ UNCHANGED <<value, key, expr, decoded, loopVars, renamerVars, junkVars, wrapVars, identVars, obforVars, mainVars, runVars, junkFnVars, applyVars>>

\* XorStringNumberStrategy.__init__(naming)
NewXorString ==
    /\ strategy = NoStrategy
    /\ get_name("decode_num")
    /\ strategy' = [cls |-> "XorString", decoder_name |-> LastName(returned')]
    /\ UNCHANGED <<value, key, expr, decoded, loopVars, renamerVars, junkVars, wrapVars, identVars, obforVars, mainVars, runVars, junkFnVars, applyVars>>

\* visit_Constant on an integer literal: strategy.obfuscate(node.value)
Obfuscate(v, key_chars) ==
    /\ strategy # NoStrategy
    /\ value = NoValue
    /\ value' = [node |-> "int", value |-> v]
    /\ key' = key_chars
    /\ expr' = obfuscate(strategy, v, key_chars)
    /\ decoded' = NoValue
    /\ UNCHANGED <<strategy, namingVars, loopVars, renamerVars, junkVars, wrapVars, identVars, obforVars, mainVars, runVars, junkFnVars, applyVars>>

ObfuscateFeistel ==
    \E v \in InRangeLiterals \cup OutOfRangeLiterals : Obfuscate(v, <<>>)

ObfuscateXorString ==
    \E v \in TextLiterals :
        \E key_chars \in [1..Len(Str(IntOf(v))) -> RandBits8] :
            Obfuscate(v, key_chars)

\* The output program runs: the expression is evaluated under the decoder.
Evaluate ==
    /\ expr # NoValue
    /\ decoded = NoValue
    /\ decoded' = EvalExpr(expr, get_decoder(strategy))
    /\ UNCHANGED <<strategy, value, key, expr, namingVars, loopVars, renamerVars, junkVars, wrapVars, identVars, obforVars, mainVars, runVars, junkFnVars, applyVars>>

\* The visitor moves on to the next Constant node of the tree: the model
\* keeps the current literal only.
NextLiteral ==
    /\ decoded # NoValue
    /\ value' = NoValue
    /\ key' = <<>>
    /\ expr' = NoValue
    /\ decoded' = NoValue
    /\ UNCHANGED <<strategy, namingVars, loopVars, renamerVars, junkVars, wrapVars, identVars, obforVars, mainVars, runVars, junkFnVars, applyVars>>

InitNumber ==
    /\ used_names \in {{}, {"decode_num0"}}
    /\ generated_names = {}
    /\ returned = <<>>
    /\ IdleNumber
    /\ IdleLoop
    /\ IdleApply
    /\ IdleJunkApply
    /\ IdleRun
    /\ IdleMain
    /\ IdleObFor
    /\ IdleIdent
    /\ IdleWrap
    /\ IdleJunk
    /\ IdleRenamer

NextFeistel ==
    NewSimpleFeistel \/ NewFeistel \/ ObfuscateFeistel \/ Evaluate \/ NextLiteral

SpecFeistel == InitNumber /\ [][NextFeistel]_vars

NextXorString == NewXorString \/ ObfuscateXorString \/ Evaluate \/ NextLiteral

SpecXorString == InitNumber /\ [][NextXorString]_vars

(***************************************************************************)
(* NumberObscurerInjector.visit_Constant over the constants of a module,   *)
(* whatever the type of node.value: int, bool, str, float or None.         *)
(***************************************************************************)

\* ast.Constant values, by type(node.value)
IntConstant(v) == [node |-> "int", value |-> v]
BoolConstant(b) == [node |-> "bool", bool |-> b]
StrConstant(s) == [node |-> "str", str |-> s]
FloatConstant(f) == [node |-> "float", float |-> f]
NoneConstant == [node |-> "NoneType"]

\* isinstance(node.value, int): bool is a subclass of int
IsInstanceInt(c) == c.node \in {"int", "bool"}

\* the integer that value is in 0 <= value, value >> 16, value & 0xFFFF:
\* True is 1 and False is 0
AsInteger(c) ==
    IF c.node = "bool" THEN PairOf(IF c.bool THEN 1 ELSE 0) ELSE c.value

\* the decimal digits of an int of 2^31 or more, by long division of its
\* halves
RECURSIVE WideDigits(_)
WideDigits(v) ==
    LET rest == (v.hi % 10) * 65536 + v.lo
        q == [hi |-> v.hi \div 10, lo |-> rest \div 10]
    IN IF q.hi = 0 /\ q.lo = 0 THEN <<48 + (rest % 10)>>
       ELSE Append(WideDigits(q), 48 + (rest % 10))

\* str(value): "True" and "False" for the booleans
StrOf(c) ==
    IF c.node = "bool"
    THEN (IF c.bool THEN <<84, 114, 117, 101>> ELSE <<70, 97, 108, 115, 101>>)
    ELSE IF c.value.hi >= 32768 THEN WideDigits(c.value)
    ELSE Str(IntOf(c.value))

\* TemplateNumberStrategy.obfuscate(value)
TemplateObfuscate(self, c) == [node |-> "Constant", value |-> c]

\* XorStringNumberStrategy.obfuscate(value) on node.value as it is
XorStringObfuscateValue(self, c, key_chars) ==
    LET s == StrOf(c)
        n == Len(s)
        encoded == XorChars(s, key_chars, n) \o key_chars
    IN [node |-> "Call", func |-> self.decoder_name, arg |-> encoded]

\* the range check of the two Feistel strategies: a value outside
\* [0, 2^32) comes back as ast.Constant(value=value)
FeistelObfuscateValue(self, c) ==
    IF ~InRange32(AsInteger(c))
    THEN [node |-> "Constant", value |-> c]
    ELSE obfuscate(self, AsInteger(c), <<>>)

\* self.strategy.obfuscate(node.value)
obfuscate_value(self, c, key_chars) ==
    CASE self.cls = "Template"  -> TemplateObfuscate(self, c)
      [] self.cls = "XorString" -> XorStringObfuscateValue(self, c, key_chars)
      [] OTHER                  -> FeistelObfuscateValue(self, c)

\* NumberObscurerInjector.visit_Constant(node)
visit_Constant(self, c, key_chars) ==
    IF IsInstanceInt(c)
    THEN obfuscate_value(self, c, key_chars)
    ELSE [node |-> "Constant", value |-> c]

\* The value of node e in the output module: a constant is its value, a
\* call is what the injected decoder returns or raises.
EvalNode(e, self) ==
    IF e.node = "Constant" THEN e.value ELSE EvalExpr(e, get_decoder(self))

\* The constants of the input module.
ModuleConstants ==
    { IntConstant(PairOf(n)) : n \in {-3, 0, 1, 7, 42} }
        \cup { BoolConstant(b) : b \in BOOLEAN }
        \cup { StrConstant(s) : s \in {"", "a"} }
        \cup { FloatConstant("1.5"), NoneConstant }

\* The outcomes of the random key characters obfuscate() draws for c.
KeyChars(self, c) ==
    IF self.cls = "XorString" /\ IsInstanceInt(c)
    THEN [1..Len(StrOf(c)) -> RandBits8]
    ELSE {<<>>}

\* TemplateNumberStrategy.__init__(naming)
NewTemplate ==
    /\ strategy = NoStrategy
    /\ strategy' = [cls |-> "Template"]
    /\ UNCHANGED <<value, key, expr, decoded, namingVars, loopVars, renamerVars, junkVars, wrapVars, identVars, obforVars, mainVars, runVars, junkFnVars, applyVars>>

\* generic_visit reaches a Constant node: visit_Constant(node)
VisitConstant ==
    /\ strategy # NoStrategy
    /\ value = NoValue
    /\ \E c \in ModuleConstants :
           \E key_chars \in KeyChars(strategy, c) :
               /\ value' = c
               /\ key' = key_chars
               /\ expr' = visit_Constant(strategy, c, key_chars)
    /\ decoded' = NoValue
    /\ UNCHANGED <<strategy, namingVars, loopVars, renamerVars, junkVars, wrapVars, identVars, obforVars, mainVars, runVars, junkFnVars, applyVars>>

\* The output module runs: the node that stands where the constant stood is
\* evaluated.
EvaluateNode ==
    /\ expr # NoValue
    /\ decoded = NoValue
    /\ decoded' = EvalNode(expr, strategy)
    /\ UNCHANGED <<strategy, value, key, expr, namingVars, loopVars, renamerVars, junkVars, wrapVars, identVars, obforVars, mainVars, runVars, junkFnVars, applyVars>>

NextConstants ==
    \/ NewTemplate
    \/ NewSimpleFeistel
    \/ NewFeistel
    \/ NewXorString
    \/ VisitConstant
    \/ EvaluateNode
    \/ NextLiteral

SpecConstants == InitNumber /\ [][NextConstants]_vars

(***************************************************************************)
(* NumberObscurerInjector.apply on a whole module, and a second injector   *)
(* applied to what the first returned.  A statement holds the Constant and *)
(* Call nodes generic_visit reaches in it, in order (nodes).               *)
(***************************************************************************)

\* main() applies two NumberObscurerInjectors, one after the other
Injectors == 2

\* Bound: the random key characters one apply() draws are the outcomes of
\* MaxKeyDraws draws, taken in turn.
MaxKeyDraws == 1

StrategyClasses == {"Template", "SimpleFeistel", "Feistel", "XorString"}

\* Outcomes of random.getrandbits(16) that FeistelNumberStrategy.__init__
\* draws here.
InjectorBits16 == {2, 45770}

ConstantNode(c) == [node |-> "Constant", value |-> c]
CallNode(func, args) == [node |-> "Call", func |-> func, args |-> args]
ModuleStmt(kind, nodes) == [node |-> kind, name |-> "", nodes |-> nodes]
IntNode(n) == ConstantNode(IntConstant(PairOf(n)))

\* the input modules:   x = 7; print(x, 7, 42, 'a')     print(True, -3, 1.5)
\* print(65536); print(0); print(None)     and the empty module
NumModules ==
    { << ModuleStmt("Assign", << IntNode(7) >>),
         ModuleStmt("Expr", << IntNode(7), IntNode(42), ConstantNode(StrConstant("a")) >>) >>,
      << ModuleStmt("Expr", << ConstantNode(BoolConstant(TRUE)), IntNode(-3),
                               ConstantNode(FloatConstant("1.5")) >>) >>,
      << ModuleStmt("Expr", << IntNode(65536) >>),
         ModuleStmt("Expr", << IntNode(0) >>),
         ModuleStmt("Expr", << ConstantNode(NoneConstant) >>) >>,
      << >> }

\* the constants in the body of the function get_decoder() parses from its
\* f-string, in source order
DecoderConstants(self) ==
    CASE self.cls = "SimpleFeistel" ->
            << IntNode(16), IntNode(65535), IntNode(65535), IntNode(self.rounds),
               IntNode(self.key16), IntNode(3), IntNode(16), IntNode(3), IntNode(16),
               ConstantNode(IntConstant([hi |-> 65535, lo |-> 65535])) >>
      [] self.cls = "Feistel" ->
            << IntNode(0), IntNode(0), IntNode(16), IntNode(2), IntNode(1), IntNode(2), IntNode(1), IntNode(1),
               IntNode(self.rounds), IntNode(self.salt_mul), IntNode(65535),
               IntNode(self.salt_xor), IntNode(3), IntNode(16), IntNode(3), IntNode(65535),
               IntNode(65535), IntNode(0), IntNode(16), IntNode(1), IntNode(2), IntNode(1), IntNode(2),
               IntNode(1),
               ConstantNode(IntConstant([hi |-> 65535, lo |-> 65535])) >>
      [] self.cls = "XorString" ->
            << IntNode(2), ConstantNode(StrConstant("")) >>

\* apply: dec_nodes, normalised to a list
DecoderNodes(self) ==
    IF get_decoder(self).cls = "None" THEN <<>>
    ELSE << [node |-> "FunctionDef", name |-> get_decoder(self).name,
             nodes |-> DecoderConstants(self)] >>

\* the outcomes of the random.getrandbits(8) calls of one apply(); only
\* XorStringNumberStrategy.obfuscate draws
KeyStreams(self) ==
    IF self.cls = "XorString" THEN [1..MaxKeyDraws -> RandBits8] ELSE {<<>>}

\* the n key characters obfuscate() draws
KeyFor(self, c, stream) ==
    IF self.cls = "XorString" /\ IsInstanceInt(c)
    THEN [j \in 1..Len(StrOf(c)) |-> stream[((j - 1) % Len(stream)) + 1]]
    ELSE <<>>

\* the node visit_Constant returns: the call's argument is a Constant, a str
\* for XorStringNumberStrategy and an int for the Feistel strategies
ReplacedBy(self, r) ==
    IF r.node = "Constant" THEN r
    ELSE CallNode(r.func,
                  << ConstantNode(IF self.cls = "XorString"
                                  THEN [node |-> "str", str |-> r.arg]
                                  ELSE IntConstant(r.arg)) >>)

\* NodeTransformer.visit on an expression: generic_visit goes into the
\* arguments of a call, visit_Constant replaces a constant
RECURSIVE VisitExpr(_, _, _)
VisitExpr(self, e, stream) ==
    IF e.node = "Constant"
    THEN ReplacedBy(self, visit_Constant(self, e.value, KeyFor(self, e.value, stream)))
    ELSE [e EXCEPT !.args = [k \in 1..Len(e.args) |->
                                VisitExpr(self, e.args[k], stream)]]

\* new_tree = self.visit(tree)
VisitTree(self, tree, stream) ==
    [k \in 1..Len(tree) |->
        [tree[k] EXCEPT !.nodes = [j \in 1..Len(tree[k].nodes) |->
                                      VisitExpr(self, tree[k].nodes[j], stream)]]]

\* an apply that puts the decoder after the module's statements
NumberObscurerApplyAppend(self, tree, stream) ==
    VisitTree(self, tree, stream) \o DecoderNodes(self)

\* NumberObscurerInjector.apply(tree)
NumberObscurerApply(self, tree, stream) ==
    DecoderNodes(self) \o VisitTree(self, tree, stream)

\* the strategy object strategy_class(naming) returns
StrategyOf(cls, r1, r2, name) ==
    CASE cls = "Template" -> [cls |-> "Template"]
      [] cls = "SimpleFeistel" ->
            [cls |-> "SimpleFeistel", rounds |-> SimpleRounds,
             key16 |-> PresetKey16, decoder_name |-> name]
      [] cls = "Feistel" ->
            [cls |-> "Feistel", rounds |-> DefaultRounds,
             salt_mul |-> OrBits(r1, 1, 16), salt_xor |-> Mask16(r2),
             salt_mul_inv |-> ModInverse(OrBits(r1, 1, 16), 65536),
             decoder_name |-> name]
      [] cls = "XorString" -> [cls |-> "XorString", decoder_name |-> name]

\* main() has analysed the module
InitApply ==
    /\ used_names = {"x", "decode_num0"}
    /\ generated_names = {}
    /\ returned = <<>>
    /\ num_before = <<>>
    /\ num_tree \in NumModules
    /\ num_applied = <<>>
    /\ IdleNumber
    /\ IdleLoop
    /\ IdleJunkApply
    /\ IdleRun
    /\ IdleMain
    /\ IdleObFor
    /\ IdleIdent
    /\ IdleWrap
    /\ IdleJunk
    /\ IdleRenamer

\* NumberObscurerInjector.__init__(naming, strategy_class)
NewNumberObscurerInjector ==
    /\ strategy = NoStrategy
    /\ Len(num_applied) < Injectors
    /\ \E cls \in StrategyClasses, r1 \in InjectorBits16, r2 \in InjectorBits16 :
         IF cls = "Template"
         THEN /\ strategy' = StrategyOf(cls, r1, r2, "")
              /\ UNCHANGED namingVars
         ELSE /\ get_name("decode_num")
              /\ strategy' = StrategyOf(cls, r1, r2, LastName(returned'))
    /\ UNCHANGED <<value, key, expr, decoded, applyVars, loopVars,
                   renamerVars, junkVars, wrapVars, identVars, obforVars,
                   mainVars, runVars, junkFnVars>>

\* tree = NumberObscurerInjector(naming, cls).apply(tree)
ApplyInjector ==
    /\ strategy # NoStrategy
    /\ Len(num_applied) < Injectors
    /\ \E stream \in KeyStreams(strategy) :
         num_tree' = NumberObscurerApply(strategy, num_tree, stream)
    /\ num_before' = num_tree
    /\ num_applied' = Append(num_applied, strategy)
    /\ strategy' = NoStrategy
    /\ UNCHANGED <<value, key, expr, decoded, namingVars, loopVars,
                   renamerVars, junkVars, wrapVars, identVars, obforVars,
                   mainVars, runVars, junkFnVars>>

NextApply == NewNumberObscurerInjector \/ ApplyInjector
SpecApply == InitApply /\ [][NextApply]_vars

(***************************************************************************)
(* The output program: a small Python abstract syntax and its evaluation.  *)
(* Expressions: Constant, Name, BinOp, Compare, Call.  Statements: Assign, *)
(* AugAssign, If, and Observe, which stands for a statement of the         *)
(* original loop body that reads one variable.                             *)
(***************************************************************************)

Constant(v) == [node |-> "Constant", value |-> v]
Name(id) == [node |-> "Name", id |-> id]
BinOp(l, op, r) == [node |-> "BinOp", left |-> l, op |-> op, right |-> r]
Compare(l, op, r) == [node |-> "Compare", left |-> l, op |-> op, right |-> r]
Call(f, args) == [node |-> "Call", func |-> f, args |-> args]
Assign(t, v) == [node |-> "Assign", target |-> t, value |-> v]
AugAssign(t, op, v) == [node |-> "AugAssign", target |-> t, op |-> op, value |-> v]
If(t, b, o) == [node |-> "If", test |-> t, body |-> b, orelse |-> o]
Observe(id) == [node |-> "Observe", id |-> id]

Abs(n) == IF n < 0 THEN 0 - n ELSE n
Max(m, n) == IF m < n THEN n ELSE m

\* Bound: a helper call that has not returned after MaxHelperSteps
\* iterations of its while loop is taken not to return.
MaxHelperSteps == 12

Returns(v) == [ok |-> TRUE, v |-> v]
Raises(what) == [ok |-> FALSE, err |-> what]

\* the forward map of get_advance and of the helper:
\* num // 2 if num % 2 == 0 else a * num + b
CollatzStep(a, b, num) ==
    IF num % 2 = 0 THEN num \div 2 ELSE a * num + b

\* The body of the helper that inject_functions builds, entered with its
\* parameters bound: counter = 0; while num != target: <step>; counter += 1
RECURSIVE ResolveLoop(_, _, _, _, _)
ResolveLoop(a, b, target, num, counter) ==
    IF num = target THEN Returns(counter)
    ELSE IF counter >= MaxHelperSteps THEN Raises("NoReturn")
    ELSE ResolveLoop(a, b, target, CollatzStep(a, b, num), counter + 1)

\* a call that binds each argument to the parameter the call site names it
\* after: (a_var, b_var, num_var, target) to (a, b, num, target)
BindByMeaning(params, args) ==
    [q \in {"a", "b", "num", "target"} |->
        CASE q = "a" -> args[1] [] q = "b" -> args[2]
          [] q = "num" -> args[3] [] q = "target" -> args[4]]

\* Python's positional call: the k-th argument is bound to the k-th parameter.
BindPositional(params, args) ==
    [q \in Range(params) |-> args[CHOOSE k \in 1..Len(params) : params[k] = q]]

\* A call of the module-level function def with evaluated arguments.
CallFunction(def, args) ==
    LET bound == BindPositional(def.params, args)
    IN ResolveLoop(bound["a"], bound["b"], bound["target"], bound["num"], 0)

\* vars_ with name bound to v
Bind(vars_, name, v) ==
    [x \in DOMAIN vars_ \cup {name} |-> IF x = name THEN v ELSE vars_[x]]

\* the value of a binary operator or a comparison on two values
Operate(op, l, r) ==
    CASE op = "Add"      -> l + r
      [] op = "Sub"      -> l - r
      [] op = "Mult"     -> l * r
      [] op = "Mod"      -> l % r
      [] op = "FloorDiv" -> l \div r
      [] op = "Lt"       -> l < r
      [] op = "Gt"       -> l > r
      [] op = "Eq"       -> l = r
      [] op = "NotEq"    -> l # r
      \* bit operations of an int of any sign with a constant r in 0..3:
      \* only the two low bits of l, which are l % 4, can change
      [] op = "BitXor"   -> (l - (l % 4)) + XorBits(l % 4, r, 2)
      [] op = "BitOr"    -> (l - (l % 4)) + OrBits(l % 4, r, 2)
      [] op = "BitAnd"   -> ((l % 4) + r - XorBits(l % 4, r, 2)) \div 2
      [] op = "LShift"   -> l * (2 ^ r)
      [] op = "RShift"   -> l \div (2 ^ r)

UnaryOp(op, operand) == [node |-> "UnaryOp", op |-> op, operand |-> operand]
\* ast.Call(func=ast.Lambda(args=[param], body=body), args=[arg])
LambdaCall(param, body, arg) ==
    [node |-> "LambdaCall", param |-> param, body |-> body, arg |-> arg]

\* the values a for statement over range(*args) takes, from v on
RECURSIVE RangeValues(_, _, _)
RangeValues(v, stop, step) ==
    IF (step > 0 /\ v < stop) \/ (step < 0 /\ v > stop)
    THEN <<v>> \o RangeValues(v + step, stop, step)
    ELSE <<>>

\* range(*args) of one to three ints
RangeCall(args) ==
    LET start == IF Len(args) = 1 THEN 0 ELSE args[1]
        stop == IF Len(args) = 1 THEN args[1] ELSE args[2]
        step == IF Len(args) = 3 THEN args[3] ELSE 1
    IN IF step = 0 THEN Raises("ValueError")
       ELSE Returns(RangeValues(start, stop, step))

RECURSIVE EvalE(_, _, _)
EvalE(e, vars_, defs) ==
    CASE e.node = "Constant" -> Returns(e.value)
      [] e.node = "Name" ->
            IF e.id \in DOMAIN vars_ THEN Returns(vars_[e.id])
            ELSE Raises("NameError")
      [] e.node \in {"BinOp", "Compare"} ->
            LET l == EvalE(e.left, vars_, defs)
                r == EvalE(e.right, vars_, defs)
            IN IF ~l.ok THEN l
               ELSE IF ~r.ok THEN r
               ELSE IF e.op \in {"FloorDiv", "Mod"} /\ r.v = 0
               THEN Raises("ZeroDivisionError")
               ELSE Returns(Operate(e.op, l.v, r.v))
      [] e.node = "UnaryOp" ->
            LET r == EvalE(e.operand, vars_, defs)
            IN IF ~r.ok THEN r ELSE Returns(0 - r.v)
      [] e.node = "LambdaCall" ->
            LET r == EvalE(e.arg, vars_, defs)
            IN IF ~r.ok THEN r
               ELSE EvalE(e.body, Bind(vars_, e.param, r.v), defs)
      [] e.node = "Call" ->
            LET a == [k \in 1..Len(e.args) |-> EvalE(e.args[k], vars_, defs)]
                found == { d \in Range(defs) : d.name = e.func }
            IN IF \E k \in 1..Len(a) : ~a[k].ok
               THEN a[CHOOSE k \in 1..Len(a) : ~a[k].ok]
               ELSE IF found = {} THEN Raises("NameError")
               ELSE CallFunction(CHOOSE d \in found : TRUE,
                                 [k \in 1..Len(a) |-> a[k].v])

\* the values the iterable of a for statement yields: those of a range()
\* call, or the items of the list a name is bound to
EvalIter(iter, vars_, defs) ==
    IF iter.node = "Call" /\ iter.func = "range"
    THEN LET a == [k \in 1..Len(iter.args) |-> EvalE(iter.args[k], vars_, defs)]
         IN IF \E k \in 1..Len(a) : ~a[k].ok
            THEN a[CHOOSE k \in 1..Len(a) : ~a[k].ok]
            ELSE RangeCall([k \in 1..Len(a) |-> a[k].v])
    ELSE EvalE(iter, vars_, defs)

\* The statements of a block run in order on st = [env, out, status]; a
\* statement that raises (or a call that does not return) stops the block.
RECURSIVE ExecBlock(_, _, _)
RECURSIVE ExecFor(_, _, _, _)
ExecBlock(stmts, st, defs) ==
    IF stmts = <<>> \/ st.status # "ok" THEN st
    ELSE LET stmt == Head(stmts)
             next ==
               CASE stmt.node = "Assign" ->
                      LET r == EvalE(stmt.value, st.env, defs)
                      IN IF r.ok
                         THEN [st EXCEPT !.env = Bind(st.env, stmt.target, r.v)]
                         ELSE [st EXCEPT !.status = r.err]
                 [] stmt.node = "AugAssign" ->
                      LET r == EvalE(BinOp(Name(stmt.target), stmt.op, stmt.value),
                                     st.env, defs)
                      IN IF r.ok
                         THEN [st EXCEPT !.env = Bind(st.env, stmt.target, r.v)]
                         ELSE [st EXCEPT !.status = r.err]
                 [] stmt.node = "If" ->
                      LET r == EvalE(stmt.test, st.env, defs)
                      IN IF ~r.ok THEN [st EXCEPT !.status = r.err]
                         ELSE IF r.v THEN ExecBlock(stmt.body, st, defs)
                         ELSE ExecBlock(stmt.orelse, st, defs)
                 [] stmt.node = "Observe" ->
                      LET r == EvalE(Name(stmt.id), st.env, defs)
                      IN IF r.ok
                         THEN [st EXCEPT !.out = Append(st.out, r.v)]
                         ELSE [st EXCEPT !.status = r.err]
                 [] stmt.node = "Pass" -> st
                 [] stmt.node = "For" ->
                      LET r == EvalIter(stmt.iter, st.env, defs)
                      IN IF r.ok THEN ExecFor(stmt, r.v, st, defs)
                         ELSE [st EXCEPT !.status = r.err]
         IN ExecBlock(Tail(stmts), next, defs)

\* a for statement over the values left: the target is bound to the next
\* value and the body runs
ExecFor(stmt, values, st, defs) ==
    IF values = <<>> \/ st.status # "ok" THEN st
    ELSE ExecFor(stmt, Tail(values),
                 ExecBlock(stmt.body,
                           [st EXCEPT !.env = Bind(st.env, stmt.target,
                                                   Head(values))],
                           defs),
                 defs)

(***************************************************************************)
(* LoopObfuscation: the strategies and ForToWhileGeneric.                  *)
(***************************************************************************)

\* Bounds: range() arguments lie in -Span..Span, steps in -MaxStep..MaxStep,
\* and the Collatz pass lowers loops of at most MaxN iterations.
Span == 4
MaxStep == 3
MaxN == 6

\* No run of a lowered loop is followed beyond IterationCap body executions.
IterationCap == Max(2 * Span, MaxN) + 2

\* for target in range(*args), the arguments being integer literals
For(target, args, body) ==
    [node |-> "For", target |-> target,
     iter |-> Call("range", [k \in 1..Len(args) |-> Constant(args[k])]),
     body |-> body]
\* for target in <any expression>
ForOver(target, iter, body) ==
    [node |-> "For", target |-> target, iter |-> iter, body |-> body]
While(test, body) == [node |-> "While", test |-> test, body |-> body]
FunctionDef(name, params) ==
    [node |-> "FunctionDef", name |-> name, params |-> params]

\* parse_constant_range_args on a range() call whose arguments are all
\* integer literals
parse_constant_range_args(values) ==
    CASE Len(values) = 1 -> <<0, values[1], 1>>
      [] Len(values) = 2 -> <<values[1], values[2], 1>>
      [] Len(values) = 3 -> <<values[1], values[2], values[3]>>

\* LoopObfuscationStrategy.__init__: the instance and the Naming after it
LoopObfuscationStrategy(nm, start, stop, step) ==
    LET nm1 == GetNameFrom(nm, "i")
    IN [self |-> [start |-> start, stop |-> stop, step |-> step,
                  loop_var |-> LastName(nm1.returned)],
        naming |-> nm1]

PlainStrategy(nm, start, stop, step) ==
    LET base == LoopObfuscationStrategy(nm, start, stop, step)
    IN [self |-> [cls |-> "Plain"] @@ base.self, naming |-> base.naming]

PlainGetInitial(self) == << Assign(self.loop_var, Constant(self.start)) >>

\* a condition that tests "<" whatever the sign of the step
PlainGetConditionLt(self) ==
    Compare(Name(self.loop_var), "Lt", Constant(self.stop))

PlainGetCondition(self) ==
    Compare(Name(self.loop_var),
            IF self.step > 0 THEN "Lt" ELSE "Gt",
            Constant(self.stop))

PlainGetAdvance(self) ==
    << AugAssign(self.loop_var,
                 IF self.step > 0 THEN "Add" ELSE "Sub",
                 Constant(Abs(self.step))) >>

\* random.choice([3, 5]) and the b_choices list
AChoices == {3, 5}
BChoices(a) == {-1, 1, 3, 5, 7, 11} \ {a}
\* random.randint(19, 97)
SeedMin == 19
SeedMax == 97
\* the states at which _collatz_forward never takes the reverse branch
NoReverse == {2, 4, 8, 16, 32, 40, 1312}

\* self.n of CollatzStrategy.__init__ (step # 0)
CollatzIterations(start, stop, step) ==
    Max(0, (stop - start + (IF step > 0 THEN step - 1 ELSE 0 - (step + 1)))
              \div Abs(step))

\* a reverse branch that does not look at the parity of the quotient
CollatzForwardStepAnyQuotient(a, b, seed) ==
    {2 * seed} \cup
    (IF (seed - b) % a = 0 /\ seed \notin NoReverse
     THEN {(seed - b) \div a} ELSE {})

\* One pass of the for loop of _collatz_forward: the values seed can have
\* after it, over the outcomes of random.random() > 0.95.
CollatzForwardStep(a, b, seed) ==
    {2 * seed} \cup
    (IF /\ (seed - b) % a = 0
        /\ ((seed - b) \div a) % 2 = 1
        /\ seed \notin NoReverse
     THEN {(seed - b) \div a} ELSE {})

\* _collatz_forward(a, b, seed, n): the values it can return
RECURSIVE collatz_forward(_, _, _, _)
collatz_forward(a, b, seed, n) ==
    IF n <= 0 THEN {seed}
    ELSE UNION { collatz_forward(a, b, s, n - 1) :
                   s \in CollatzForwardStep(a, b, seed) }

\* CollatzStrategy.__init__ with the values drawn from random: a, b, seed
\* and the result target of _collatz_forward
CollatzStrategy(nm, start, stop, step, a, b, seed, target) ==
    LET base == LoopObfuscationStrategy(nm, start, stop, step)
        nm1 == GetNameFrom(base.naming, "a")
        nm2 == GetNameFrom(nm1, "b")
        nm3 == GetNameFrom(nm2, "num")
        nm4 == GetNameFrom(nm3, "resolve_collatz")
    IN [self |-> [cls |-> "Collatz",
                  a_var |-> LastName(nm1.returned),
                  b_var |-> LastName(nm2.returned),
                  num_var |-> LastName(nm3.returned),
                  a |-> a, b |-> b, seed |-> seed,
                  n |-> CollatzIterations(start, stop, step),
                  target |-> target,
                  resolve_name |-> LastName(nm4.returned)] @@ base.self,
        naming |-> nm4]

CollatzGetInitial(self) ==
    << Assign(self.a_var, Constant(self.a)),
       Assign(self.b_var, Constant(self.b)),
       Assign(self.num_var, Constant(self.target)) >>

CollatzGetCondition(self) ==
    Compare(Name(self.num_var), "NotEq", Constant(self.seed))

CollatzGetLoopIndexSetup(self) ==
    << Assign(self.loop_var,
              Call(self.resolve_name,
                   << Name(self.a_var), Name(self.b_var),
                      Name(self.num_var), Constant(self.target) >>)) >>

CollatzGetAdvance(self) ==
    << If(Compare(BinOp(Name(self.num_var), "Mod", Constant(2)),
                  "Eq", Constant(0)),
          << Assign(self.num_var,
                    BinOp(Name(self.num_var), "FloorDiv", Constant(2))) >>,
          << Assign(self.num_var,
                    BinOp(BinOp(Name(self.a_var), "Mult", Name(self.num_var)),
                          "Add", Name(self.b_var))) >>) >>

\* CollatzStrategy.inject_functions: the helper goes to the top of the module
CollatzInjectFunctions(self, tree) ==
    [tree EXCEPT !.defs =
        << FunctionDef(self.resolve_name, <<"a", "b", "target", "num">>) >>
        \o tree.defs]

get_initial(self) ==
    IF self.cls = "Plain" THEN PlainGetInitial(self) ELSE CollatzGetInitial(self)
get_condition(self) ==
    IF self.cls = "Plain" THEN PlainGetCondition(self)
    ELSE CollatzGetCondition(self)
get_loop_index_setup(self) ==
    IF self.cls = "Plain" THEN <<>> ELSE CollatzGetLoopIndexSetup(self)
get_advance(self) ==
    IF self.cls = "Plain" THEN PlainGetAdvance(self) ELSE CollatzGetAdvance(self)
inject_functions(self, tree) ==
    IF self.cls = "Plain" THEN tree ELSE CollatzInjectFunctions(self, tree)

\* VarRenamer: every Name orig in Load or Store context becomes new
RECURSIVE VarRenamerExpr(_, _, _)
VarRenamerExpr(e, orig, new) ==
    CASE e.node = "Name" -> IF e.id = orig THEN Name(new) ELSE e
      [] e.node \in {"BinOp", "Compare"} ->
            [e EXCEPT !.left = VarRenamerExpr(e.left, orig, new),
                      !.right = VarRenamerExpr(e.right, orig, new)]
      [] e.node = "Call" ->
            [e EXCEPT !.args = [k \in 1..Len(e.args) |->
                                   VarRenamerExpr(e.args[k], orig, new)]]
      [] OTHER -> e

RECURSIVE VarRenamer(_, _, _)
VarRenamer(stmt, orig, new) ==
    CASE stmt.node = "Observe" ->
            IF stmt.id = orig THEN Observe(new) ELSE stmt
      [] stmt.node \in {"Assign", "AugAssign"} ->
            [stmt EXCEPT !.target = IF stmt.target = orig THEN new
                                      ELSE stmt.target,
                         !.value = VarRenamerExpr(stmt.value, orig, new)]
      [] stmt.node = "Expr" ->
            [stmt EXCEPT !.value = VarRenamerExpr(stmt.value, orig, new)]
      [] stmt.node = "If" ->
            [stmt EXCEPT !.test = VarRenamerExpr(stmt.test, orig, new),
                         !.body = [k \in 1..Len(stmt.body) |->
                                      VarRenamer(stmt.body[k], orig, new)],
                         !.orelse = [k \in 1..Len(stmt.orelse) |->
                                        VarRenamer(stmt.orelse[k], orig, new)]]
      [] OTHER -> stmt

\* visit_For on a for loop over range() with literal arguments, with the
\* strategy instance that strategy_class(naming, start, stop, step) returned
visit_For(strat, node) ==
    LET body_block == [k \in 1..Len(node.body) |->
                          VarRenamer(node.body[k], node.target,
                                     strat.loop_var)]
        while_node == While(get_condition(strat),
                            get_loop_index_setup(strat) \o body_block
                                \o get_advance(strat))
    IN get_initial(strat) \o << while_node >>

\* Ob_For.apply on a module whose body is one for loop: visit, then
\* inject_functions
ForToWhile(strat, node) ==
    inject_functions(strat,
                     [defs |-> <<>>, body |-> visit_For(strat, node)])

(***************************************************************************)
(* Lowering one for loop and running the module that results.  The loop    *)
(* body reads the loop variable once per execution (Observe), it does not  *)
(* assign it and has no break or continue.                                 *)
(***************************************************************************)

\* the names analyze found in the program before the pass
ProgramNames == { {"i"}, {"i", "i0", "a0", "num0", "resolve_collatz0"} }

\* the argument lists of range(): one, two or three integer literals
RangeArgs ==
    { <<stop>> : stop \in -Span..Span }
    \cup { <<start, stop>> : start \in -Span..Span, stop \in -Span..Span }
    \cup { <<start, stop, step>> : start \in -Span..Span,
                                   stop \in -Span..Span,
                                   step \in -MaxStep..MaxStep }

InitLoop ==
    /\ used_names \in ProgramNames
    /\ generated_names = {}
    /\ returned = <<>>
    /\ IdleNumber
    /\ IdleLoop
    /\ IdleApply
    /\ IdleJunkApply
    /\ IdleRun
    /\ IdleMain
    /\ IdleObFor
    /\ IdleIdent
    /\ IdleWrap
    /\ IdleJunk
    /\ IdleRenamer

\* Ob_For.apply with the strategy instance built for the loop
Lower(built, node) ==
    /\ loop' = built.self
    /\ lowered' = ForToWhile(built.self, node)
    /\ NamingBecomes(built.naming)
    /\ pc' = "initial"
    /\ UNCHANGED <<env, visited, numberVars, renamerVars, junkVars, wrapVars, identVars, obforVars, mainVars, runVars, junkFnVars, applyVars>>

LowerPlain ==
    /\ pc = "idle"
    /\ \E values \in RangeArgs :
        LET parsed == parse_constant_range_args(values)
        IN Lower(PlainStrategy(NamingNow, parsed[1], parsed[2], parsed[3]),
                 For("i", values, << Observe("i") >>))

LowerCollatz ==
    /\ pc = "idle"
    /\ \E count \in 0..MaxN, a \in AChoices, seed \in SeedMin..SeedMax :
      \E b \in BChoices(a) :
        LET values == << count >>
            parsed == parse_constant_range_args(values)
            n == CollatzIterations(parsed[1], parsed[2], parsed[3])
        IN \E target \in collatz_forward(a, b, seed, n) :
             Lower(CollatzStrategy(NamingNow, parsed[1], parsed[2], parsed[3],
                                   a, b, seed, target),
                   For("i", values, << Observe("i") >>))

\* the while statement of the lowered module: the last statement
WhileNode == lowered.body[Len(lowered.body)]

Running == [env |-> env, out |-> visited, status |-> "ok"]

\* after a block: the place reached, or the exception that ended the run
Continue(st, place) ==
    /\ env' = st.env
    /\ visited' = st.out
    /\ pc' = IF st.status = "ok" THEN place ELSE st.status
    /\ UNCHANGED <<loop, lowered, namingVars, numberVars, renamerVars, junkVars, wrapVars, identVars, obforVars, mainVars, runVars, junkFnVars, applyVars>>

\* the statements before the while statement
ExecInitial ==
    /\ pc = "initial"
    /\ Continue(ExecBlock(SubSeq(lowered.body, 1, Len(lowered.body) - 1),
                          Running, lowered.defs),
                "test")

\* the test of the while statement
ExecTest ==
    /\ pc = "test"
    /\ LET r == EvalE(WhileNode.test, env, lowered.defs)
       IN pc' = IF ~r.ok THEN r.err ELSE IF r.v THEN "body" ELSE "done"
    /\ UNCHANGED <<loop, lowered, env, visited, namingVars, numberVars, renamerVars, junkVars, wrapVars, identVars, obforVars, mainVars, runVars, junkFnVars, applyVars>>

\* one execution of the body of the while statement
ExecBody ==
    /\ pc = "body"
    /\ Len(visited) < IterationCap
    /\ Continue(ExecBlock(WhileNode.body, Running, lowered.defs), "test")

NextPlain == LowerPlain \/ ExecInitial \/ ExecTest \/ ExecBody
SpecPlain == InitLoop /\ [][NextPlain]_vars

NextCollatz == LowerCollatz \/ ExecInitial \/ ExecTest \/ ExecBody
SpecCollatz == InitLoop /\ [][NextCollatz]_vars

(***************************************************************************)
(* Renamer                                                                 *)
(***************************************************************************)

\* Bound: the number of candidates random produces during one apply().
MaxDraws == 5

\* Strings that random.choice(ascii_letters + "_") followed by
\* random.choices(ascii_letters + digits + "_", k=7) can spell; each of
\* them is an identifier, so name.isidentifier() holds of every candidate.
DrawPool == {"qwertyui", "Zq3_k9aB", "_1234567", "A_b_C_d_"}

\* The nodes of a tree, in the order generic_visit reaches them.  args is
\* args.args, kwonly is args.kwonlyargs.
DefNode(name, args, kwonly) ==
    [kind |-> "FunctionDef", name |-> name, args |-> args, kwonly |-> kwonly,
     ctx |-> ""]
ClassNode(name) ==
    [kind |-> "ClassDef", name |-> name, args |-> <<>>, kwonly |-> <<>>,
     ctx |-> ""]
LambdaNode(args) ==
    [kind |-> "Lambda", name |-> "", args |-> args, kwonly |-> <<>>,
     ctx |-> ""]
NameNode(id, ctx) ==
    [kind |-> "Name", name |-> id, args |-> <<>>, kwonly |-> <<>>, ctx |-> ctx]
\* a node that carries an identifier and has no visitor in either pass: the
\* keyword of a call (kind "keyword"), a global or nonlocal declaration
\* ("Global"), an exception handler ("ExceptHandler"), an import alias ("alias")
PlainNode(kind, name) ==
    [kind |-> kind, name |-> name, args |-> <<>>, kwonly |-> <<>>, ctx |-> ""]

\* The programs handed to the renamer.
RenamerTrees ==
    { << DefNode("f", <<"x">>, <<"k">>), NameNode("y", "Store"),
         NameNode("x", "Load"), NameNode("k", "Load") >>,
      << ClassNode("C"), LambdaNode(<<"p">>), NameNode("p", "Load"),
         NameNode("print", "Load") >>,
      << NameNode("x", "Store"), NameNode("x", "Store"),
         NameNode("f", "Load"), NameNode("z", "Del") >>,
      << DefNode("qwertyui", <<"x", "y">>, <<>>),
         NameNode("qwertyui", "Load") >>,
      << DefNode("f", <<"x">>, <<"k">>), NameNode("k", "Store"),
         NameNode("x", "Load") >>,
      << DefNode("g", <<"a">>, <<>>), NameNode("g", "Load"),
         PlainNode("keyword", "a") >>,
      << NameNode("x", "Store"), DefNode("f", <<>>, <<>>),
         PlainNode("Global", "x"), NameNode("x", "Store") >>,
      << PlainNode("alias", "p"), PlainNode("ExceptHandler", "e"),
         NameNode("e", "Store"), NameNode("p", "Store") >> }

\* Names the earlier passes left in the registry besides the program's own.
PassNames == { {}, {"i0"}, {"Zq3_k9aB"} }

\* the values of the dict mp
Values(mp) == { mp[k] : k \in DOMAIN mp }

\* the test of _generate_name with the namespace left out
NameAcceptableAmongValues(name, ns, mp) == name \notin Values(mp)

\* name.isidentifier() and name not in self.namespace
\*   and name not in self.mapping.values()
NameAcceptable(name, ns, mp) == name \notin ns /\ name \notin Values(mp)

\* _generate_name() on the candidates random produces, in order: the name it
\* returns, self.namespace after it, and the candidates not yet looked at.
\* With no acceptable candidate among them the call has not returned.
RECURSIVE generate_name(_, _, _)
generate_name(stream, ns, mp) ==
    IF stream = <<>> THEN [ok |-> FALSE]
    ELSE IF NameAcceptable(Head(stream), ns, mp)
    THEN [ok |-> TRUE, name |-> Head(stream),
          namespace |-> ns \cup {Head(stream)}, rest |-> Tail(stream)]
    ELSE generate_name(Tail(stream), ns, mp)

\* Pass 1: what the visitors add to self.to_rename at one node
CollectNames(node) ==
    CASE node.kind = "FunctionDef" -> {node.name} \cup Range(node.args)
      [] node.kind = "ClassDef"    -> {node.name}
      [] node.kind = "Lambda"      -> Range(node.args)
      [] node.kind = "Name"        ->
            IF node.ctx = "Store" THEN {node.name} ELSE {}
      [] OTHER                     -> {}

\* the orders in which a for loop can go over the set S
Orders(S) ==
    { o \in [1..Cardinality(S) -> S] :
        \A i, j \in 1..Cardinality(S) : i # j => o[i] # o[j] }

\* for old in self.to_rename: self.mapping[old] = self._generate_name()
RECURSIVE BuildMapping(_, _, _, _)
BuildMapping(order, stream, ns, mp) ==
    IF order = <<>>
    THEN [ok |-> TRUE, namespace |-> ns, mapping |-> mp, rest |-> stream]
    ELSE LET g == generate_name(stream, ns, mp)
         IN IF ~g.ok THEN [ok |-> FALSE]
            ELSE BuildMapping(Tail(order), g.rest, g.namespace,
                              Bind(mp, Head(order), g.name))

\* self.mapping.get(x, x)
Mapped(mp, x) == IF x \in DOMAIN mp THEN mp[x] ELSE x

\* Pass 2: the visitors of _Rewriter at one node
RewriteNode(node, mp) ==
    CASE node.kind = "FunctionDef" ->
            [node EXCEPT !.name = Mapped(mp, node.name),
                         !.args = [k \in 1..Len(node.args) |->
                                      Mapped(mp, node.args[k])]]
      [] node.kind = "ClassDef" ->
            [node EXCEPT !.name = Mapped(mp, node.name)]
      [] node.kind = "Lambda" ->
            [node EXCEPT !.args = [k \in 1..Len(node.args) |->
                                      Mapped(mp, node.args[k])]]
      [] node.kind = "Name" ->
            [node EXCEPT !.name = Mapped(mp, node.name)]
      [] OTHER -> node

rewrite(tree, mp) == [k \in 1..Len(tree) |-> RewriteNode(tree[k], mp)]

\* main() has analysed the program and run the earlier passes.
InitRenamer ==
    /\ \E tree \in RenamerTrees, more \in PassNames :
          /\ module_tree = tree
          /\ used_names =
                more \cup UNION { VisitedNames(n) : n \in Range(tree) }
    /\ generated_names = {}
    /\ returned = <<>>
    /\ namespace = {}
    /\ to_rename = {}
    /\ mapping = <<>>
    /\ renamed_tree = <<>>
    /\ drawn = <<>>
    /\ phase = "idle"
    /\ IdleNumber
    /\ IdleLoop
    /\ IdleApply
    /\ IdleJunkApply
    /\ IdleRun
    /\ IdleMain
    /\ IdleObFor
    /\ IdleIdent
    /\ IdleWrap
    /\ IdleJunk

\* Renamer(naming.get_namespace())
NewRenamer ==
    /\ phase = "idle"
    /\ namespace' = get_namespace
    /\ to_rename' = {}
    /\ mapping' = <<>>
    /\ phase' = "constructed"
    /\ UNCHANGED <<module_tree, renamed_tree, drawn,
                   namingVars, numberVars, loopVars, junkVars, wrapVars, identVars, obforVars, mainVars, runVars, junkFnVars, applyVars>>

\* apply(tree): collect, build the mapping, rewrite
Apply ==
    /\ phase = "constructed"
    /\ LET collected ==
               to_rename \cup
               UNION { CollectNames(n) : n \in Range(module_tree) }
       IN \E order \in Orders(collected) :
            \E stream \in [1..MaxDraws -> DrawPool] :
              LET built == BuildMapping(order, stream, namespace, mapping)
              IN /\ built.ok
                 /\ to_rename' = collected
                 /\ mapping' = built.mapping
                 /\ namespace' = built.namespace
                 /\ drawn' = SubSeq(stream, 1, MaxDraws - Len(built.rest))
                 /\ renamed_tree' = rewrite(module_tree, built.mapping)
    /\ phase' = "done"
    /\ UNCHANGED <<module_tree, namingVars, numberVars, loopVars, junkVars, wrapVars, identVars, obforVars, mainVars, runVars, junkFnVars, applyVars>>

NextRenamer == NewRenamer \/ Apply
SpecRenamer == InitRenamer /\ [][NextRenamer]_vars

(***************************************************************************)
(* JunkInjector and the junk strategies                                    *)
(***************************************************************************)

\* Bounds: the constructor draws 3 to 5 names, of which runs with up to
\* MaxJunkVars are followed; a run holds up to MaxJunkStmts junk statements
\* and stops where a scratch variable would exceed MaxJunkValue in size.
MaxJunkVars == 3
MaxJunkStmts == 2
MaxJunkValue == 5

\* random.randint(3, 5)
MinJunkVars == 3

\* The names visit_Name found in the program; the program assigns each of
\* them at module level.
OwnVariables == { {"x", "junk0"}, {"junk0_cnt"} }

\* ArithmeticStrategy.OPS, the operators of LambdaStrategy, BitwiseStrategy.OPS
ArithmeticOps == {"Add", "Sub", "Mult", "FloorDiv"}
LambdaOps == {"Add", "Sub", "Mult"}
BitwiseOps == {"BitAnd", "BitOr", "BitXor", "LShift", "RShift"}

\* ArithmeticStrategy._wrap with the drawn choice
ArithmeticWrap(choice, node) ==
    CASE choice = "neg"    -> UnaryOp("USub", node)
      [] choice = "double" -> BinOp(node, "Mult", Constant(2))
      [] OTHER             -> node

\* get_junk of each strategy, with the values drawn from random
ArithmeticGetJunk(v1, v2, op1, op2, w1, w2, c) ==
    << Assign(v1, BinOp(BinOp(ArithmeticWrap(w1, Name(v1)), op1,
                              ArithmeticWrap(w2, Name(v2))),
                        op2, Constant(c))) >>

LambdaGetJunk(v, op, c) ==
    << Assign(v, LambdaCall("x", BinOp(Name("x"), op, Constant(c)), Name(v))) >>

BitwiseGetJunk(v1, v2, op, amount) ==
    << Assign(v1, BinOp(Name(v1), op, Constant(amount))) >>

NonConstantTimeGetJunk(jv, v1, v2, n) ==
    << For(jv[1] \o "_cnt", <<n>>, << AugAssign(v2, "Add", Constant(1)) >>) >>

\* random.sample(self.junk_vars, 2)
Sample2(jv) == { p \in Range(jv) \X Range(jv) : p[1] # p[2] }

\* the names an expression reads in the scope it is evaluated in
RECURSIVE ExprNames(_)
ExprNames(e) ==
    CASE e.node = "Name" -> {e.id}
      [] e.node \in {"BinOp", "Compare"} ->
            ExprNames(e.left) \cup ExprNames(e.right)
      [] e.node = "UnaryOp" -> ExprNames(e.operand)
      [] e.node = "LambdaCall" ->
            ExprNames(e.arg) \cup (ExprNames(e.body) \ {e.param})
      [] e.node = "Call" ->
            {e.func} \cup UNION { ExprNames(e.args[k]) : k \in 1..Len(e.args) }
      [] OTHER -> {}

\* the names a statement reads or binds in the scope it runs in
RECURSIVE StmtNames(_)
StmtNames(stmt) ==
    CASE stmt.node \in {"Assign", "AugAssign"} ->
            {stmt.target} \cup ExprNames(stmt.value)
      [] stmt.node = "For" ->
            {stmt.target}
            \cup UNION { StmtNames(stmt.body[k]) : k \in 1..Len(stmt.body) }
      [] stmt.node = "If" ->
            ExprNames(stmt.test)
            \cup UNION { StmtNames(stmt.body[k]) : k \in 1..Len(stmt.body) }
            \cup UNION { StmtNames(stmt.orelse[k]) : k \in 1..Len(stmt.orelse) }
      [] stmt.node = "Observe" -> {stmt.id}
      [] OTHER -> {}

\* main() has analysed the program; the output program has not started.
InitJunk ==
    /\ used_names \in OwnVariables
    /\ generated_names = {}
    /\ returned = <<>>
    /\ IdleJunk
    /\ IdleNumber
    /\ IdleLoop
    /\ IdleApply
    /\ IdleJunkApply
    /\ IdleRun
    /\ IdleMain
    /\ IdleObFor
    /\ IdleIdent
    /\ IdleWrap
    /\ IdleRenamer

\* JunkInjector.__init__
NewJunkInjector ==
    /\ junk_vars = <<>>
    /\ \E num_vars \in MinJunkVars..MaxJunkVars :
         LET nm == GetNamesFrom(NamingNow, [k \in 1..num_vars |-> "junk"])
         IN /\ junk_vars' = [k \in 1..num_vars |->
                                nm.returned[Len(returned) + k].name]
            /\ NamingBecomes(nm)
    /\ UNCHANGED <<module_vars, touched, junk_count, junk_status,
                   numberVars, loopVars, renamerVars, wrapVars, identVars, obforVars, mainVars, runVars, junkFnVars, applyVars>>

\* The output program starts: the declarations visit_Module put at the top
\* of the module run, then the program's own assignments.
RunDeclarations ==
    /\ junk_vars # <<>>
    /\ module_vars = <<>>
    /\ module_vars' =
          [n \in used_names |-> IF n \in Range(junk_vars) THEN 1 ELSE 10]
    /\ UNCHANGED <<junk_vars, touched, junk_count, junk_status,
                   namingVars, numberVars, loopVars, renamerVars, wrapVars, identVars, obforVars, mainVars, runVars, junkFnVars, applyVars>>

\* _inject_in_body put the statements of one get_junk() call into the
\* module body, and the output program reaches them.
RunJunk(stmts) ==
    LET st == ExecBlock(stmts,
                        [env |-> module_vars, out |-> <<>>, status |-> "ok"],
                        <<>>)
    IN /\ \A n \in Range(junk_vars) :
             st.env[n] \in -MaxJunkValue..MaxJunkValue
       /\ module_vars' = st.env
       /\ junk_status' = st.status
       /\ touched' = touched \cup
                     UNION { StmtNames(stmts[k]) : k \in 1..Len(stmts) }
       /\ junk_count' = junk_count + 1
       /\ UNCHANGED <<junk_vars, namingVars, numberVars, loopVars,
                      renamerVars, wrapVars, identVars, obforVars, mainVars, runVars, junkFnVars, applyVars>>

CanRunJunk ==
    /\ module_vars # <<>>
    /\ junk_status = "ok"
    /\ junk_count < MaxJunkStmts

ArithmeticJunk ==
    /\ CanRunJunk
    /\ \E p \in Sample2(junk_vars), op1 \in ArithmeticOps,
          op2 \in ArithmeticOps, w1 \in {"none", "neg", "double"},
          w2 \in {"none", "neg", "double"}, c \in 1..5 :
         RunJunk(ArithmeticGetJunk(p[1], p[2], op1, op2, w1, w2, c))

LambdaJunk ==
    /\ CanRunJunk
    /\ \E v \in Range(junk_vars), op \in LambdaOps, c \in 1..5 :
         RunJunk(LambdaGetJunk(v, op, c))

BitwiseJunk ==
    /\ CanRunJunk
    /\ \E p \in Sample2(junk_vars), op \in BitwiseOps, amount \in 1..3 :
         RunJunk(BitwiseGetJunk(p[1], p[2], op, amount))

NonConstantTimeJunk ==
    /\ CanRunJunk
    /\ \E p \in Sample2(junk_vars), n \in 3..6 :
         RunJunk(NonConstantTimeGetJunk(junk_vars, p[1], p[2], n))

NextJunk ==
    \/ NewJunkInjector \/ RunDeclarations
    \/ ArithmeticJunk \/ LambdaJunk \/ BitwiseJunk \/ NonConstantTimeJunk
SpecJunk == InitJunk /\ [][NextJunk]_vars

(***************************************************************************)
(* Python values with their types, and the expressions the conditional and *)
(* identity strategies emit                                                *)
(***************************************************************************)

\* (the payload field is named after the type: values of different types
\* are then different records whatever they hold)
PyInt(n) == [type |-> "int", int |-> n]
PyBool(b) == [type |-> "bool", bool |-> b]
PyStr(t) == [type |-> "str", str |-> t]
PyNone == [type |-> "NoneType"]
PyList(elts) == [type |-> "list", elts |-> elts]
PyTuple(elts) == [type |-> "tuple", elts |-> elts]
\* a dict as the sequence of its <<key, value>> items
PyDict(items) == [type |-> "dict", items |-> items]

\* bool(val)
Truthy(val) ==
    CASE val.type = "int"      -> val.int # 0
      [] val.type = "bool"     -> val.bool
      [] val.type = "NoneType" -> FALSE
      [] val.type = "str"      -> val.str # ""
      [] val.type = "dict"     -> val.items # <<>>
      [] OTHER                 -> val.elts # <<>>

\* the int a bool or an int counts as in arithmetic and comparisons
AsInt(val) == IF val.type = "bool" THEN (IF val.bool THEN 1 ELSE 0) ELSE val.int

\* a is b, for the values above (small ints, bools, None and interned
\* strings are one object per value)
SameValue(a, b) == a.type = b.type /\ a = b

List(elts) == [node |-> "List", elts |-> elts]
Tuple(elts) == [node |-> "Tuple", elts |-> elts]
Dict(keys, values) == [node |-> "Dict", keys |-> keys, values |-> values]
BoolOp(op, values) == [node |-> "BoolOp", op |-> op, values |-> values]
IfExp(test, body, orelse) ==
    [node |-> "IfExp", test |-> test, body |-> body, orelse |-> orelse]
Subscript(val, slice) == [node |-> "Subscript", value |-> val, slice |-> slice]
Pass == [node |-> "Pass"]

\* Bound: the bit operations of the emitted tests are computed on
\* BitWidth-bit non-negative ints.
BitWidth == 4

RECURSIVE EvalT(_, _)
RECURSIVE EvalBoolOp(_, _, _)
RECURSIVE EvalElts(_, _)
\* the elements of a display, left to right; the first that raises wins
EvalElts(elts, vars_) ==
    IF elts = <<>> THEN Returns(<<>>)
    ELSE LET h == EvalT(Head(elts), vars_)
         IN IF ~h.ok THEN h
            ELSE LET t == EvalElts(Tail(elts), vars_)
                 IN IF ~t.ok THEN t ELSE Returns(<<h.v>> \o t.v)

\* a and b and ... / a or b or ...: the first operand that decides is the
\* value, and the operands after it are not evaluated
EvalBoolOp(op, values, vars_) ==
    LET h == EvalT(Head(values), vars_)
    IN IF ~h.ok \/ Len(values) = 1 THEN h
       ELSE IF (op = "And") = Truthy(h.v)
       THEN EvalBoolOp(op, Tail(values), vars_)
       ELSE h

EvalT(e, vars_) ==
    CASE e.node = "Constant" -> Returns(e.value)
      [] e.node = "Name" ->
            IF e.id \in DOMAIN vars_ THEN Returns(vars_[e.id])
            ELSE Raises("NameError")
      [] e.node \in {"List", "Tuple"} ->
            LET r == EvalElts(e.elts, vars_)
            IN IF ~r.ok THEN r
               ELSE Returns(IF e.node = "List" THEN PyList(r.v)
                            ELSE PyTuple(r.v))
      [] e.node = "Dict" ->
            LET k == EvalElts(e.keys, vars_)
                w == EvalElts(e.values, vars_)
            IN IF ~k.ok THEN k
               ELSE IF ~w.ok THEN w
               ELSE Returns(PyDict([j \in 1..Len(k.v) |-> <<k.v[j], w.v[j]>>]))
      [] e.node \in {"BinOp", "Compare"} ->
            LET l == EvalT(e.left, vars_)
                r == EvalT(e.right, vars_)
            IN IF ~l.ok THEN l
               ELSE IF ~r.ok THEN r
               ELSE IF {l.v.type, r.v.type} \subseteq {"int", "bool"}
               THEN CASE e.op = "BitXor" ->
                           Returns(PyInt(XorBits(AsInt(l.v), AsInt(r.v),
                                                 BitWidth)))
                      [] e.op = "GtE" ->
                           Returns(PyBool(AsInt(l.v) >= AsInt(r.v)))
                      [] e.op = "Lt" ->
                           Returns(PyBool(AsInt(l.v) < AsInt(r.v)))
               ELSE Raises("TypeError")
      [] e.node = "BoolOp" -> EvalBoolOp(e.op, e.values, vars_)
      [] e.node = "UnaryOp" ->
            LET r == EvalT(e.operand, vars_)
            IN IF ~r.ok THEN r ELSE Returns(PyBool(~Truthy(r.v)))
      [] e.node = "IfExp" ->
            LET t == EvalT(e.test, vars_)
            IN IF ~t.ok THEN t
               ELSE IF Truthy(t.v) THEN EvalT(e.body, vars_)
               ELSE EvalT(e.orelse, vars_)
      [] e.node = "LambdaCall" ->
            LET r == EvalT(e.arg, vars_)
            IN IF ~r.ok THEN r
               ELSE EvalT(e.body, (e.param :> r.v) @@ vars_)
      [] e.node = "Subscript" ->
            LET c == EvalT(e.value, vars_)
                k == EvalT(e.slice, vars_)
            IN IF ~c.ok THEN c
               ELSE IF ~k.ok THEN k
               ELSE IF c.v.type = "dict"
               THEN LET hit == { j \in 1..Len(c.v.items) :
                                   SameValue(c.v.items[j][1], k.v) }
                    IN IF hit = {} THEN Raises("KeyError")
                       ELSE Returns(c.v.items[CHOOSE j \in hit : TRUE][2])
               ELSE IF c.v.type \notin {"list", "tuple"} \/ k.v.type # "int"
               THEN Raises("TypeError")
               ELSE IF k.v.int + 1 \in 1..Len(c.v.elts)
               THEN Returns(c.v.elts[k.v.int + 1])
               ELSE Raises("IndexError")

(***************************************************************************)
(* ConditionalInjector and RandomConditionalStrategy                       *)
(***************************************************************************)

\* RandomConditionalStrategy._make_test: the library of tests for truth
TruthyOptions ==
    LET nested_list == List(<<List(<<Constant(PyInt(1))>>), List(<<>>)>>)
        bit_xor == BinOp(Constant(PyInt(12)), "BitXor", Constant(PyInt(4)))
        compare_simple == Compare(Constant(PyInt(3)), "GtE", Constant(PyInt(2)))
        bool_chain == BoolOp("And", <<nested_list, bit_xor>>)
        unary_not == UnaryOp("Not", Constant(PyBool(FALSE)))
    IN <<nested_list, bit_xor, compare_simple, bool_chain, unary_not>>

FalsyOptions ==
    LET const_false == Constant(PyBool(FALSE))
        compare_false == Compare(Constant(PyInt(1)), "Lt", Constant(PyInt(0)))
        unary_false == UnaryOp("Not", Constant(PyBool(TRUE)))
    IN <<const_false, compare_false, unary_false>>

\* a library that does not follow the truth flag
make_test_ignoring_truth(truth) == TruthyOptions

\* _make_test(truth): the options random.choice picks from
make_test(truth) == IF truth THEN TruthyOptions ELSE FalsyOptions

\* RandomConditionalStrategy.wrap with the drawn truth flag and test
RandomConditionalWrap(stmt, truth, test) ==
    IF truth THEN << If(test, <<stmt>>, <<>>) >>
    ELSE << If(test, <<Pass>>, <<stmt>>) >>

\* Bound: the module bodies followed have up to MaxBodyLen statements.
MaxBodyLen == 2

\* for one statement of the body: random.random() < chance, and where it is,
\* random.random() < 0.5 and the index random.choice(options) picks
WrapChoices ==
    { <<FALSE, FALSE, 1>> }
    \cup UNION { { <<TRUE, truth, k>> : k \in 1..Len(make_test(truth)) } :
                 truth \in BOOLEAN }

\* ConditionalInjector._inject_in_body with the drawn choices d
RECURSIVE inject_in_body(_, _)
inject_in_body(stmts, d) ==
    IF stmts = <<>> THEN <<>>
    ELSE (IF Head(d)[1]
          THEN RandomConditionalWrap(Head(stmts), Head(d)[2],
                                     make_test(Head(d)[2])[Head(d)[3]])
          ELSE <<Head(stmts)>>)
         \o inject_in_body(Tail(stmts), Tail(d))

\* The statements of a module body: an If is one of the wrappers above (its
\* test holds typed values and no names), anything else is a statement of
\* the program.
RECURSIVE ExecModule(_, _)
ExecModule(stmts, st) ==
    IF stmts = <<>> \/ st.status # "ok" THEN st
    ELSE LET stmt == Head(stmts)
             next ==
               IF stmt.node = "If"
               THEN LET t == EvalT(stmt.test, <<>>)
                    IN IF ~t.ok THEN [st EXCEPT !.status = t.err]
                       ELSE IF Truthy(t.v) THEN ExecModule(stmt.body, st)
                       ELSE ExecModule(stmt.orelse, st)
               ELSE ExecBlock(<<stmt>>, st, <<>>)
         IN ExecModule(Tail(stmts), next)

\* the statements the module bodies are made of; y is unbound at first
WrapStatements ==
    { Assign("x", BinOp(Name("x"), "Add", Constant(1))),
      Observe("x"),
      Observe("y"),
      For("y", <<2>>, << AugAssign("x", "Mult", Constant(2)) >>) }

WrapBodies ==
    UNION { [1..n -> WrapStatements] : n \in 1..MaxBodyLen }

InitWrap ==
    /\ wrap_body \in WrapBodies
    /\ wrap_env \in { [x \in {"x"} |-> v] : v \in 0..1 }
    /\ wrap_new_body = <<>>
    /\ wrap_ran = <<>>
    /\ IdleNaming
    /\ IdleNumber
    /\ IdleLoop
    /\ IdleApply
    /\ IdleJunkApply
    /\ IdleRun
    /\ IdleMain
    /\ IdleObFor
    /\ IdleRenamer
    /\ IdleJunk
    /\ IdleIdent

\* ConditionalInjector.visit_Module
InjectInBody ==
    /\ wrap_new_body = <<>>
    /\ \E d \in [1..Len(wrap_body) -> WrapChoices] :
         wrap_new_body' = inject_in_body(wrap_body, d)
    /\ UNCHANGED <<wrap_body, wrap_env, wrap_ran, namingVars, numberVars,
                   loopVars, renamerVars, junkVars, identVars, obforVars, mainVars, runVars, junkFnVars, applyVars>>

\* the input program and the output program run from the same variables
RunModule ==
    /\ wrap_new_body # <<>>
    /\ wrap_ran = <<>>
    /\ LET st == [env |-> wrap_env, out |-> <<>>, status |-> "ok"]
       IN wrap_ran' = << ExecModule(wrap_body, st),
                         ExecModule(wrap_new_body, st) >>
    /\ UNCHANGED <<wrap_body, wrap_new_body, wrap_env, namingVars,
                   numberVars, loopVars, renamerVars, junkVars, identVars, obforVars, mainVars, runVars, junkFnVars, applyVars>>

NextWrap == InjectInBody \/ RunModule
SpecWrap == InitWrap /\ [][NextWrap]_vars

(***************************************************************************)
(* IdentityFuncInjector and the identity strategies                        *)
(***************************************************************************)

\* a Name node with its context
NameCtx(id, ctx) == [node |-> "Name", id |-> id, ctx |-> ctx]

\* <expr> and 1
DefaultIdentityWrapReversed(e) == BoolOp("And", <<e, Constant(PyInt(1))>>)
\* 1 and <expr>
DefaultIdentityWrap(e) == BoolOp("And", <<Constant(PyInt(1)), e>>)
\* expr or (expr and expr)
OrIdentityWrap(e) == BoolOp("Or", <<e, BoolOp("And", <<e, e>>)>>)
\* expr if True else 0
TernaryIdentityWrap(e) == IfExp(Constant(PyBool(TRUE)), e, Constant(PyInt(0)))
\* (lambda x: x)(expr)
LambdaIdentityWrap(e) == LambdaCall("x", NameCtx("x", "Load"), e)
\* (expr,)[0]
TupleIndexIdentityWrap(e) == Subscript(Tuple(<<e>>), Constant(PyInt(0)))
\* {'x': expr}['x']
DictLookupIdentityWrap(e) ==
    Subscript(Dict(<<Constant(PyStr("x"))>>, <<e>>), Constant(PyStr("x")))

\* MixedIdentityStrategy._choices
MixedChoices ==
    <<"OrIdentityStrategy", "TernaryIdentityStrategy",
      "LambdaIdentityStrategy", "TupleIndexIdentityStrategy",
      "DictLookupIdentityStrategy">>

IdentityStrategies ==
    {"DefaultIdentityFuncStrategy", "MixedIdentityStrategy"}
    \cup Range(MixedChoices)

\* cls().wrap(expr); pick is the index random.choice draws in
\* MixedIdentityStrategy.wrap
RECURSIVE IdentityWrap(_, _, _)
IdentityWrap(cls, e, pick) ==
    CASE cls = "DefaultIdentityFuncStrategy" -> DefaultIdentityWrap(e)
      [] cls = "OrIdentityStrategy"          -> OrIdentityWrap(e)
      [] cls = "TernaryIdentityStrategy"     -> TernaryIdentityWrap(e)
      [] cls = "LambdaIdentityStrategy"      -> LambdaIdentityWrap(e)
      [] cls = "TupleIndexIdentityStrategy"  -> TupleIndexIdentityWrap(e)
      [] cls = "DictLookupIdentityStrategy"  -> DictLookupIdentityWrap(e)
      [] cls = "MixedIdentityStrategy" ->
            IdentityWrap(MixedChoices[pick], e, pick)

\* IdentityFuncInjector.visit_Name and visit_Constant; roll is
\* random.random() < self.chance
IdentityVisit(cls, node, roll, pick) ==
    IF node.node = "Name" /\ node.ctx # "Load" THEN node
    ELSE IF roll THEN IdentityWrap(cls, node, pick)
    ELSE node

\* the values of the constants and variables of the input program
IdentityValues ==
    { PyInt(0), PyBool(FALSE), PyNone, PyStr(""),
      PyInt(7), PyInt(-3), PyBool(TRUE), PyStr("a") }

InitIdent ==
    /\ \E v \in IdentityValues :
         \/ ident_node = Constant(v) /\ ident_env = <<>>
         \/ /\ ident_node \in { NameCtx("x", "Load"), NameCtx("x", "Store"),
                                NameCtx("y", "Load") }
            /\ ident_env = [n \in {"x"} |-> v]
    /\ ident_cls = "None"
    /\ ident_new = [node |-> "None"]
    /\ IdleNaming
    /\ IdleNumber
    /\ IdleLoop
    /\ IdleApply
    /\ IdleJunkApply
    /\ IdleRun
    /\ IdleMain
    /\ IdleObFor
    /\ IdleRenamer
    /\ IdleJunk
    /\ IdleWrap

\* IdentityFuncInjector(strategy, chance)
NewIdentityFuncInjector ==
    /\ ident_cls = "None"
    /\ ident_cls' \in IdentityStrategies
    /\ UNCHANGED <<ident_node, ident_env, ident_new, namingVars, numberVars,
                   loopVars, renamerVars, junkVars, wrapVars, obforVars, mainVars, runVars, junkFnVars, applyVars>>

\* the injector visits the node
VisitNode ==
    /\ ident_cls # "None"
    /\ ident_new = [node |-> "None"]
    /\ \E roll \in BOOLEAN, pick \in 1..Len(MixedChoices) :
         ident_new' = IdentityVisit(ident_cls, ident_node, roll, pick)
    /\ UNCHANGED <<ident_node, ident_env, ident_cls, namingVars, numberVars,
                   loopVars, renamerVars, junkVars, wrapVars, obforVars, mainVars, runVars, junkFnVars, applyVars>>

NextIdent == NewIdentityFuncInjector \/ VisitNode
SpecIdent == InitIdent /\ [][NextIdent]_vars

(***************************************************************************)
(* Ob_For: LoopUnwrapper, ComplexLoopUnwrapper and ForToWhileGeneric over  *)
(* a module.  A module is [defs, body]: the helper functions the           *)
(* strategies inject, and the statements.                                  *)
(***************************************************************************)

\* ast.Expr(value=ast.Call(func=Name(f), args=[...]))
ExprCall(f, args) == [node |-> "Expr", value |-> Call(f, args)]
\* ast.FunctionDef(name, args, body)
FunctionDefOf(name, params, body) ==
    [node |-> "FunctionDef", name |-> name, params |-> params, body |-> body]

\* is_int_literal (the constants of the programs followed are ints)
is_int_literal(n) ==
    \/ n.node = "Constant"
    \/ n.node = "UnaryOp" /\ n.op = "USub" /\ n.operand.node = "Constant"

\* eval_int
eval_int(e) == IF e.node = "Constant" THEN e.value ELSE 0 - e.operand.value

\* parse_constant_range_args(call) is not None
IsConstantRange(call) ==
    /\ call.node = "Call"
    /\ call.func = "range"
    /\ Len(call.args) \in 1..3
    /\ \A k \in 1..Len(call.args) : is_int_literal(call.args[k])

\* parse_constant_range_args(call) where it is not None
ParsedRange(call) ==
    parse_constant_range_args([k \in 1..Len(call.args) |-> eval_int(call.args[k])])

\* p // q for q # 0
floor(p, q) == IF q > 0 THEN p \div q ELSE (0 - p) \div (0 - q)

\* a quotient rounded down where math.ceil rounds up
ceil_rounding_down(p, q) == floor(p, q)

\* math.ceil(p / q) for q # 0
ceil(p, q) == 0 - floor(0 - p, q)

\* ---- The three transformers.  Each returns [body, acc]: the statements
\* that replace what it visited, and what it carries along (acc).

Unvisited(stmt, acc) == [body |-> <<stmt>>, acc |-> acc]
\* stmt with the visited body r.body in place of its own
WithBody(stmt, r) == [body |-> <<[stmt EXCEPT !.body = r.body]>>, acc |-> r.acc]
\* the statements of here, then those of rest
Then(here, rest) == [body |-> here.body \o rest.body, acc |-> rest.acc]

\* ---- LoopUnwrapper.  acc = [nm, new_funcs]: the Naming instance and
\* self.new_funcs so far.

\* one for statement of node.body: func_def is appended to new_funcs and
\* the call takes its place
MoveLoop(stmt, target, new_funcs, nm1) ==
    [body |-> << ExprCall(LastName(nm1.returned), <<Name(target)>>) >>,
     acc |-> [nm |-> nm1,
              new_funcs |-> Append(new_funcs,
                                   FunctionDefOf(LastName(nm1.returned),
                                                 <<target>>, <<stmt>>))]]

MoveOne(stmt, target, acc) ==
    IF stmt.node = "For"
    THEN MoveLoop(stmt, target, acc.new_funcs,
                  GetNameFrom(acc.nm, "__unwrapped_loop"))
    ELSE Unvisited(stmt, acc)

\* the loop of visit_For over node.body
RECURSIVE MoveNested(_, _, _)
RECURSIVE MoveRest(_, _, _)
MoveNested(stmts, target, acc) ==
    IF stmts = <<>> THEN [body |-> <<>>, acc |-> acc]
    ELSE MoveRest(MoveOne(Head(stmts), target, acc), Tail(stmts), target)
MoveRest(here, stmts, target) ==
    Then(here, MoveNested(stmts, target, here.acc))

\* LoopUnwrapper.visit_For, inner being the result of generic_visit
UnwrapVisitFor(node, inner) ==
    WithBody(node, MoveNested(inner.body, node.target, inner.acc))

\* LoopUnwrapper.visit over a list of statements
RECURSIVE UnwrapBody(_, _)
RECURSIVE UnwrapVisit(_, _)
RECURSIVE UnwrapRest(_, _)
UnwrapBody(stmts, acc) ==
    IF stmts = <<>> THEN [body |-> <<>>, acc |-> acc]
    ELSE UnwrapRest(UnwrapVisit(Head(stmts), acc), Tail(stmts))
UnwrapRest(here, stmts) == Then(here, UnwrapBody(stmts, here.acc))
UnwrapVisit(stmt, acc) ==
    CASE stmt.node = "For" ->
            UnwrapVisitFor(stmt, UnwrapBody(stmt.body, acc))
      [] stmt.node = "FunctionDef" ->
            WithBody(stmt, UnwrapBody(stmt.body, acc))
      [] OTHER -> Unvisited(stmt, acc)

\* LoopUnwrapper.inject_functions
UnwrapperInjectFunctions(tree, r) ==
    [tree |-> [tree EXCEPT !.body = r.acc.new_funcs \o r.body],
     nm |-> r.acc.nm]

\* unit.visit(tree), then unit.inject_functions(tree)
LoopUnwrapper(tree, nm) ==
    UnwrapperInjectFunctions(
        tree, UnwrapBody(tree.body, [nm |-> nm, new_funcs |-> <<>>]))

\* ---- ComplexLoopUnwrapper.  acc is the Naming instance.

\* the new for loop, idx_var being the name nm1 returned last
NormalizedFor(node, body, start, step, count, nm1) ==
    [body |-> << For(LastName(nm1.returned), <<count>>,
                     << Assign(node.target,
                               BinOp(Constant(start), "Add",
                                     BinOp(Name(LastName(nm1.returned)),
                                           "Mult", Constant(step)))) >>
                     \o body) >>,
     acc |-> nm1]

ComplexParsed(node, inner, parsed) ==
    IF parsed[3] = 0 THEN WithBody(node, inner)
    ELSE NormalizedFor(node, inner.body, parsed[1], parsed[3],
                       Max(0, ceil(parsed[2] - parsed[1], parsed[3])),
                       GetNameFrom(inner.acc, "__idx"))

\* ComplexLoopUnwrapper.visit_For, inner being the result of generic_visit
ComplexVisitFor(node, inner) ==
    IF ~IsConstantRange(node.iter) THEN WithBody(node, inner)
    ELSE ComplexParsed(node, inner, ParsedRange(node.iter))

RECURSIVE ComplexBody(_, _)
RECURSIVE ComplexVisit(_, _)
RECURSIVE ComplexRest(_, _)
ComplexBody(stmts, acc) ==
    IF stmts = <<>> THEN [body |-> <<>>, acc |-> acc]
    ELSE ComplexRest(ComplexVisit(Head(stmts), acc), Tail(stmts))
ComplexRest(here, stmts) == Then(here, ComplexBody(stmts, here.acc))
ComplexVisit(stmt, acc) ==
    CASE stmt.node = "For" ->
            ComplexVisitFor(stmt, ComplexBody(stmt.body, acc))
      [] stmt.node = "FunctionDef" ->
            WithBody(stmt, ComplexBody(stmt.body, acc))
      [] OTHER -> Unvisited(stmt, acc)

ComplexResult(tree, r) ==
    [tree |-> [tree EXCEPT !.body = r.body], nm |-> r.acc]

ComplexLoopUnwrapper(tree, nm) ==
    ComplexResult(tree, ComplexBody(tree.body, nm))

\* ---- ForToWhileGeneric.  acc = [nm, strategies, draws, err]: the Naming
\* instance, self._strategies, the values random has yet to produce, and
\* the exception raised so far ("ok" for none).

\* self.strategy_class(self.naming, start, stop, step), d being what random
\* produces in it
BuildStrategy(cls, nm, parsed, d) ==
    IF cls = "Plain"
    THEN PlainStrategy(nm, parsed[1], parsed[2], parsed[3])
    ELSE CollatzStrategy(nm, parsed[1], parsed[2], parsed[3],
                         d[1], d[2], d[3], d[4])

\* the statements visit_For returns with the strategy built
LoweredFor(node, acc, built) ==
    [body |-> visit_For(built.self, node),
     acc |-> [nm |-> built.naming,
              strategies |-> Append(acc.strategies, built.self),
              draws |-> Tail(acc.draws),
              err |-> acc.err]]

LowerParsed(cls, node, acc, parsed) ==
    IF cls = "Collatz" /\ parsed[3] = 0
    THEN \* self.n = ... // abs(self.step)
         Unvisited(node, [acc EXCEPT !.err = "ZeroDivisionError"])
    ELSE LoweredFor(node, acc,
                    BuildStrategy(cls, acc.nm, parsed, Head(acc.draws)))

\* ForToWhileGeneric.visit_For, inner being the result of generic_visit
LowerVisitFor(cls, node, inner) ==
    IF inner.acc.err # "ok" \/ ~IsConstantRange(node.iter)
    THEN WithBody(node, inner)
    ELSE LowerParsed(cls, [node EXCEPT !.body = inner.body], inner.acc,
                     ParsedRange(node.iter))

RECURSIVE LowerBody(_, _, _)
RECURSIVE LowerVisit(_, _, _)
RECURSIVE LowerRest(_, _, _)
LowerBody(cls, stmts, acc) ==
    IF stmts = <<>> THEN [body |-> <<>>, acc |-> acc]
    ELSE LowerRest(cls, LowerVisit(cls, Head(stmts), acc), Tail(stmts))
LowerRest(cls, here, stmts) == Then(here, LowerBody(cls, stmts, here.acc))
LowerVisit(cls, stmt, acc) ==
    CASE stmt.node = "For" ->
            LowerVisitFor(cls, stmt, LowerBody(cls, stmt.body, acc))
      [] stmt.node = "FunctionDef" ->
            WithBody(stmt, LowerBody(cls, stmt.body, acc))
      [] OTHER -> Unvisited(stmt, acc)

\* ForToWhileGeneric.inject_functions over self._strategies
RECURSIVE InjectAll(_, _)
InjectAll(strategies, tree) ==
    IF strategies = <<>> THEN tree
    ELSE InjectAll(Tail(strategies), inject_functions(Head(strategies), tree))

LowerResult(tree, r) ==
    [tree |-> InjectAll(r.acc.strategies, [tree EXCEPT !.body = r.body]),
     nm |-> r.acc.nm, err |-> r.acc.err]

ForToWhileGeneric(cls, tree, nm, draws) ==
    LowerResult(tree,
                LowerBody(cls, tree.body,
                          [nm |-> nm, strategies |-> <<>>, draws |-> draws,
                           err |-> "ok"]))

\* the for statements visit_For will build a strategy for, in visit order
RECURSIVE LiteralLoops(_)
LiteralLoops(stmts) ==
    IF stmts = <<>> THEN <<>>
    ELSE LET stmt == Head(stmts)
         IN (CASE stmt.node = "For" ->
                    LiteralLoops(stmt.body)
                    \o (IF IsConstantRange(stmt.iter) THEN <<stmt>> ELSE <<>>)
               [] stmt.node = "FunctionDef" -> LiteralLoops(stmt.body)
               [] OTHER -> <<>>)
            \o LiteralLoops(Tail(stmts))

\* the seeds followed out of SeedMin..SeedMax
ObForSeeds == {SeedMin, SeedMax}

\* what random produces in CollatzStrategy.__init__ for one loop: a, b, seed
\* and the outcome of _collatz_forward
CollatzDraws(node) ==
    LET parsed == ParsedRange(node.iter)
    IN IF parsed[3] = 0 THEN { <<0, 0, 0, 0>> }
       ELSE UNION { UNION { { <<a, b, seed, target>> :
                 target \in collatz_forward(a, b, seed,
                     CollatzIterations(parsed[1], parsed[2], parsed[3])) } :
               b \in BChoices(a) } : a \in AChoices, seed \in ObForSeeds }

RECURSIVE DrawSeqs(_, _)
DrawSeqs(cls, loops) ==
    IF loops = <<>> THEN { <<>> }
    ELSE { <<d>> \o t :
             d \in IF cls = "Plain" THEN { <<>> }
                   ELSE CollatzDraws(Head(loops)),
             t \in DrawSeqs(cls, Tail(loops)) }

\* the loops of the input module
ObForBody(target) == << Observe(target) >>
NonRangeIters == { Name("items"), Call("range", <<Name("n")>>) }
ObForTrees ==
    { << For("i", values, ObForBody("i")) >> : values \in RangeArgs }
    \cup { << ForOver("i", Call("range", <<Constant(10), Constant(0),
                                          UnaryOp("USub", Constant(2))>>),
                      ObForBody("i")) >> }
    \cup { << ForOver("i", it, ObForBody("i")) >> : it \in NonRangeIters }
    \cup { << ForOver("i", outer,
                      ObForBody("i")
                      \o << ForOver("j", inner, ObForBody("j")) >>) >> :
             outer \in {Name("items"), Call("range", <<Constant(2)>>)},
             inner \in {Name("items"), Call("range", <<Constant(1),
                                                       Constant(3)>>)} }

\* the names analyze found in the module before the pass
ObForNames ==
    { {"i", "j", "items", "n", "range"},
      {"i", "j", "items", "n", "range", "__idx0", "__unwrapped_loop0"} }

InitObFor ==
    /\ used_names \in ObForNames
    /\ generated_names = {}
    /\ returned = <<>>
    /\ ob_tree \in ObForTrees
    /\ ob_cls = "None"
    /\ ob_passes = <<>>
    /\ ob_status = "idle"
    /\ IdleNumber
    /\ IdleLoop
    /\ IdleApply
    /\ IdleJunkApply
    /\ IdleRun
    /\ IdleMain
    /\ IdleRenamer
    /\ IdleJunk
    /\ IdleWrap
    /\ IdleIdent

\* Ob_For.__init__(naming, strategy_class)
NewObFor ==
    /\ ob_status = "idle"
    /\ ob_cls' \in {"Plain", "Collatz"}
    /\ ob_status' = "built"
    /\ UNCHANGED <<ob_tree, ob_passes, namingVars, numberVars, loopVars,
                   renamerVars, junkVars, wrapVars, identVars, mainVars, runVars, junkFnVars, applyVars>>

\* apply(): the last unit has run (p3), before holding the modules the
\* units in front of it returned
ApplyResult(before, p3) ==
    /\ ob_passes' = IF p3.err = "ok" THEN Append(before, p3.tree) ELSE before
    /\ ob_status' = IF p3.err = "ok" THEN "done" ELSE p3.err
    /\ NamingBecomes(p3.nm)

\* apply(): the unit ForToWhileGeneric on what the units before it made
ApplyLowering(before, p2) ==
    \E draws \in DrawSeqs(ob_cls, LiteralLoops(p2.tree.body)) :
        ApplyResult(Append(before, p2.tree),
                    ForToWhileGeneric(ob_cls, p2.tree, p2.nm, draws))

\* apply(): the unit ComplexLoopUnwrapper, which only CollatzStrategy adds
ApplyNormalizing(p1) ==
    IF ob_cls = "Collatz"
    THEN ApplyLowering(<<p1.tree>>, ComplexLoopUnwrapper(p1.tree, p1.nm))
    ELSE ApplyLowering(<<>>, p1)

\* Ob_For.apply(tree)
ObForApply ==
    /\ ob_status = "built"
    /\ ApplyNormalizing(LoopUnwrapper([defs |-> <<>>, body |-> ob_tree],
                                      NamingNow))
    /\ UNCHANGED <<ob_cls, ob_tree, numberVars, loopVars, renamerVars,
                   junkVars, wrapVars, identVars, mainVars, runVars, junkFnVars, applyVars>>

NextObFor == NewObFor \/ ObForApply
SpecObFor == InitObFor /\ [][NextObFor]_vars

(***************************************************************************)
(* Running a module with functions: Python's scopes (a name bound anywhere *)
(* in a function body is local to the function), while loops, continue and *)
(* calls of the module's functions.  A frame fr holds the module's         *)
(* variables (globals), the function's (locals), the function's local      *)
(* names (scope), what was printed (out) and how the run stands (status).  *)
(***************************************************************************)

\* ast.Continue()
ContinueStmt == [node |-> "Continue"]

\* the names the statements bind: in a function body, its local names
RECURSIVE AssignedNames(_)
AssignedNames(stmts) ==
    IF stmts = <<>> THEN {}
    ELSE (CASE Head(stmts).node \in {"Assign", "AugAssign"} ->
                 {Head(stmts).target}
            [] Head(stmts).node = "For" ->
                 {Head(stmts).target} \cup AssignedNames(Head(stmts).body)
            [] Head(stmts).node = "While" -> AssignedNames(Head(stmts).body)
            [] Head(stmts).node = "If" ->
                 AssignedNames(Head(stmts).body)
                 \cup AssignedNames(Head(stmts).orelse)
            [] OTHER -> {})
         \cup AssignedNames(Tail(stmts))

\* the variables an expression evaluated in the frame sees: a local name
\* hides the module's variable of that name, bound or not
Visible(fr) ==
    IF fr.fn
    THEN [x \in (DOMAIN fr.globals \ fr.scope) \cup DOMAIN fr.locals |->
             IF x \in DOMAIN fr.locals THEN fr.locals[x] ELSE fr.globals[x]]
    ELSE fr.globals

\* the value of e in the frame; reading a local name that has no value yet
\* raises UnboundLocalError
EvalIn(e, fr, defs) ==
    LET r == EvalE(e, Visible(fr), defs)
    IN IF r.ok THEN r
       ELSE IF /\ r.err = "NameError"
               /\ fr.fn
               /\ ExprNames(e) \cap (fr.scope \ DOMAIN fr.locals) # {}
       THEN Raises("UnboundLocalError")
       ELSE r

\* name = v in the frame
Store(fr, name, v) ==
    IF fr.fn THEN [fr EXCEPT !.locals = Bind(fr.locals, name, v)]
    ELSE [fr EXCEPT !.globals = Bind(fr.globals, name, v)]

Fail(fr, err) == [fr EXCEPT !.status = err]
Assigned(fr, name, r) == IF r.ok THEN Store(fr, name, r.v) ELSE Fail(fr, r.err)
Observed(fr, r) ==
    IF r.ok THEN [fr EXCEPT !.out = Append(fr.out, r.v)] ELSE Fail(fr, r.err)

\* the end of a loop body: continue goes on with the next iteration
AfterBody(fr) == IF fr.status = "continue" THEN [fr EXCEPT !.status = "ok"] ELSE fr

\* the frame of a call of f with evaluated arguments
NewFrame(f, args, fr) ==
    [globals |-> fr.globals, locals |-> BindPositional(f.params, args),
     scope |-> Range(f.params) \cup AssignedNames(f.body), fn |-> TRUE,
     out |-> fr.out, status |-> "ok"]

\* the caller's frame after the call returned or raised
Returned(fr, callee) ==
    [fr EXCEPT !.globals = callee.globals, !.out = callee.out,
               !.status = callee.status]

RECURSIVE RunBlock(_, _, _)
RECURSIVE RunStmt(_, _, _)
RECURSIVE RunIf(_, _, _, _)
RECURSIVE RunWhile(_, _, _, _)
RECURSIVE RunWhileTest(_, _, _, _, _)
RECURSIVE RunFor(_, _, _, _)
RECURSIVE RunForOver(_, _, _, _)
RECURSIVE RunCall(_, _, _, _)

\* the statements of a block in order; an exception, a continue or a loop
\* that does not end stops it
RunBlock(stmts, fr, prog) ==
    IF stmts = <<>> \/ fr.status # "ok" THEN fr
    ELSE RunBlock(Tail(stmts), RunStmt(Head(stmts), fr, prog), prog)

RunStmt(stmt, fr, prog) ==
    CASE stmt.node = "Assign" ->
            Assigned(fr, stmt.target, EvalIn(stmt.value, fr, prog.defs))
      [] stmt.node = "AugAssign" ->
            Assigned(fr, stmt.target,
                     EvalIn(BinOp(Name(stmt.target), stmt.op, stmt.value),
                            fr, prog.defs))
      [] stmt.node = "Observe" ->
            Observed(fr, EvalIn(Name(stmt.id), fr, prog.defs))
      [] stmt.node = "If" ->
            RunIf(stmt, fr, prog, EvalIn(stmt.test, fr, prog.defs))
      [] stmt.node = "Continue" -> Fail(fr, "continue")
      [] stmt.node = "While" -> RunWhile(stmt, fr, prog, 0)
      [] stmt.node = "For" ->
            RunForOver(stmt, fr, prog,
                       EvalIter(stmt.iter, Visible(fr), prog.defs))
      [] stmt.node = "Expr" ->
            RunCall(stmt.value, fr, prog,
                    [k \in 1..Len(stmt.value.args) |->
                        EvalIn(stmt.value.args[k], fr, prog.defs)])
      [] OTHER -> fr

RunIf(stmt, fr, prog, t) ==
    IF ~t.ok THEN Fail(fr, t.err)
    ELSE IF t.v THEN RunBlock(stmt.body, fr, prog)
    ELSE RunBlock(stmt.orelse, fr, prog)

\* a while statement that has run its body n times
RunWhile(stmt, fr, prog, n) ==
    IF fr.status # "ok" THEN fr
    ELSE RunWhileTest(stmt, fr, prog, n, EvalIn(stmt.test, fr, prog.defs))

RunWhileTest(stmt, fr, prog, n, t) ==
    IF ~t.ok THEN Fail(fr, t.err)
    ELSE IF ~t.v THEN fr
    ELSE IF n >= IterationCap THEN Fail(fr, "NoTermination")
    ELSE RunWhile(stmt, AfterBody(RunBlock(stmt.body, fr, prog)), prog, n + 1)

\* a for statement over the values left
RunFor(stmt, values, fr, prog) ==
    IF values = <<>> \/ fr.status # "ok" THEN fr
    ELSE RunFor(stmt, Tail(values),
                AfterBody(RunBlock(stmt.body,
                                   Store(fr, stmt.target, Head(values)),
                                   prog)),
                prog)

RunForOver(stmt, fr, prog, r) ==
    IF r.ok THEN RunFor(stmt, r.v, fr, prog) ELSE Fail(fr, r.err)

\* a call statement, a being its evaluated arguments: a function of the
\* module runs its body in a new frame
RunCall(call, fr, prog, a) ==
    IF \E k \in 1..Len(a) : ~a[k].ok
    THEN Fail(fr, a[CHOOSE k \in 1..Len(a) : ~a[k].ok].err)
    ELSE IF \A k \in 1..Len(prog.funcs) : prog.funcs[k].name # call.func
    THEN Fail(fr, "NameError")
    ELSE Returned(fr,
                  RunBlock(prog.funcs[CHOOSE k \in 1..Len(prog.funcs) :
                                          prog.funcs[k].name = call.func].body,
                           NewFrame(prog.funcs[CHOOSE k \in 1..Len(prog.funcs) :
                                          prog.funcs[k].name = call.func],
                                    [k \in 1..Len(a) |-> a[k].v], fr),
                           prog))

IsFunctionDef(stmt) == stmt.node = "FunctionDef"

\* the module run from its first statement: what it printed, the module's
\* variables at the end, and "ok" or what stopped it
RunProgram(tree) ==
    RunBlock(tree.body,
             [globals |-> <<>>, locals |-> <<>>, scope |-> {}, fn |-> FALSE,
              out |-> <<>>, status |-> "ok"],
             [defs |-> tree.defs, funcs |-> SelectSeq(tree.body, IsFunctionDef)])

(***************************************************************************)
(* Ob_For.apply on modules whose loops have a continue, a statement after  *)
(* the loop that reads the loop variable, or a nested loop that reads and  *)
(* binds variables of the scope around it; then the modules run.           *)
(***************************************************************************)

\* for i in range(...): if i == 1: continue; print(i)
LoopWithContinue(values) ==
    << For("i", values,
           << If(Compare(Name("i"), "Eq", Constant(1)), <<ContinueStmt>>, <<>>),
              Observe("i") >>) >>

\* for i in range(...): print(i), then print(i)
LoopThenRead(values) ==
    << For("i", values, << Observe("i") >>), Observe("i") >>

\* total = 0; for i in range(1, 3): for j in range(1, 3): <stmt>; print(total)
NestedAround(stmt) ==
    << Assign("total", Constant(0)),
       For("i", <<1, 3>>, << For("j", <<1, 3>>, << stmt >>) >>),
       Observe("total") >>

\* def f(n): for i in range(1, 3): for j in range(n): print(j), and f(2)
NestedInFunction ==
    << FunctionDefOf("f", <<"n">>,
           << For("i", <<1, 3>>,
                  << ForOver("j", Call("range", <<Name("n")>>),
                             << Observe("j") >>) >>) >>),
       ExprCall("f", <<Constant(2)>>) >>

LoweredTrees ==
    { LoopWithContinue(values) : values \in {<<3>>, <<0, 4, 2>>, <<1, 2>>} }
    \cup { LoopThenRead(values) :
             values \in {<<3>>, <<1, 4>>, <<4, 0, -2>>, <<2, 2>>} }
    \cup { NestedAround(stmt) :
             stmt \in { AugAssign("total", "Add",
                                  BinOp(Name("i"), "Mult", Name("j"))),
                        Assign("total", Name("j")),
                        Observe("total"),
                        Observe("i") } }
    \cup { NestedInFunction }

InitLowered ==
    /\ used_names = {"i", "j", "n", "f", "total", "range"}
    /\ generated_names = {}
    /\ returned = <<>>
    /\ ob_tree \in LoweredTrees
    /\ ob_cls = "None"
    /\ ob_passes = <<>>
    /\ ob_status = "idle"
    /\ IdleRun
    /\ IdleNumber
    /\ IdleLoop
    /\ IdleApply
    /\ IdleJunkApply
    /\ IdleRenamer
    /\ IdleJunk
    /\ IdleWrap
    /\ IdleIdent
    /\ IdleMain

\* The input module and the module each unit returned are run.
RunModules ==
    /\ ob_status = "done"
    /\ ran_passes = <<>>
    /\ ran_input' = RunProgram([defs |-> <<>>, body |-> ob_tree])
    /\ ran_passes' = [k \in 1..Len(ob_passes) |-> RunProgram(ob_passes[k])]
    /\ UNCHANGED <<namingVars, numberVars, loopVars, renamerVars, junkVars,
                   wrapVars, identVars, obforVars, mainVars, junkFnVars, applyVars>>

NextLowered == NewObFor \/ ObForApply \/ RunModules
SpecLowered == InitLowered /\ [][NextLowered]_vars

(***************************************************************************)
(* JunkInjector.apply on a module that defines and calls a function; the   *)
(* module it returns is run.                                               *)
(***************************************************************************)

\* Bound: the random draws of one apply() in which at most MaxJunkInjected
\* get_junk() calls are made are followed.
MaxJunkInjected == 1

\* def f(x): print(x)      f(7)
JunkInput ==
    << FunctionDefOf("f", <<"x">>, << Observe("x") >>),
       ExprCall("f", <<Constant(7)>>) >>

\* what a get_junk() call of one of the four strategies can return
JunkStatements(jv) ==
    { ArithmeticGetJunk(p[1], p[2], op1, op2, w1, w2, c) :
         p \in Sample2(jv), op1 \in ArithmeticOps, op2 \in ArithmeticOps,
         w1 \in {"none", "neg", "double"}, w2 \in {"none", "neg", "double"},
         c \in 1..5 }
    \cup { LambdaGetJunk(v, op, c) :
              v \in Range(jv), op \in LambdaOps, c \in 1..5 }
    \cup { BitwiseGetJunk(p[1], p[2], op, amount) :
              p \in Sample2(jv), op \in BitwiseOps, amount \in 1..3 }
    \cup { NonConstantTimeGetJunk(jv, p[1], p[2], n) :
              p \in Sample2(jv), n \in 3..6 }

\* the places _inject_in_body can put junk at: before and after each
\* statement of the function body and of the module body
InjectionPoints(tree) ==
    { <<"FunctionDef", k, side>> :
         k \in 1..Len(tree[1].body), side \in {"before", "after"} }
    \cup { <<"Module", k, side>> :
              k \in 1..Len(tree), side \in {"before", "after"} }

\* the junk the draws put at a place
JunkAt(draws, point) ==
    IF point \in DOMAIN draws THEN draws[point] ELSE <<>>

\* _inject_in_body(body), the statements of body numbered from k
RECURSIVE JunkInjectInBody(_, _, _, _)
JunkInjectInBody(body, where, k, draws) ==
    IF body = <<>> THEN <<>>
    ELSE JunkAt(draws, <<where, k, "before">>)
         \o << Head(body) >>
         \o JunkAt(draws, <<where, k, "after">>)
         \o JunkInjectInBody(Tail(body), where, k + 1, draws)

\* JunkInjector.visit_FunctionDef
JunkVisitFunctionDef(stmt, draws) ==
    IF stmt.node = "FunctionDef"
    THEN [stmt EXCEPT !.body = JunkInjectInBody(stmt.body, "FunctionDef", 1, draws)]
    ELSE stmt

\* the declarations visit_Module puts at the top of the module
JunkDecls(jv) == [k \in 1..Len(jv) |-> Assign(jv[k], Constant(1))]

\* JunkInjector.visit_Module
JunkVisitModule(tree, jv, draws) ==
    JunkDecls(jv)
    \o JunkInjectInBody([k \in 1..Len(tree) |-> JunkVisitFunctionDef(tree[k], draws)],
                    "Module", 1, draws)

\* main() has analysed the module
InitJunkApply ==
    /\ used_names \in { {"f", "x"}, {"f", "x", "junk1"} }
    /\ generated_names = {}
    /\ returned = <<>>
    /\ IdleJunk
    /\ IdleNumber
    /\ IdleLoop
    /\ IdleApply
    /\ IdleJunkApply
    /\ IdleRun
    /\ IdleMain
    /\ IdleObFor
    /\ IdleIdent
    /\ IdleWrap
    /\ IdleRenamer

\* JunkInjector.apply, then the module it returned is run
JunkApply ==
    /\ junk_vars # <<>>
    /\ junk_tree = <<>>
    /\ \E points \in SUBSET InjectionPoints(JunkInput) :
         /\ Cardinality(points) <= MaxJunkInjected
         /\ \E draws \in [points -> JunkStatements(junk_vars)] :
              /\ junk_tree' = JunkVisitModule(JunkInput, junk_vars, draws)
              /\ junk_ran' = RunProgram([defs |-> <<>>,
                                         body |-> JunkVisitModule(JunkInput, junk_vars, draws)])
    /\ UNCHANGED <<junk_vars, module_vars, touched, junk_count, junk_status,
                   namingVars, numberVars, loopVars, renamerVars, wrapVars,
                   identVars, obforVars, mainVars, runVars, applyVars>>

NextJunkApply == NewJunkInjector \/ JunkApply
SpecJunkApply == InitJunkApply /\ [][NextJunkApply]_vars

(***************************************************************************)
(* main() of obfuscate.py, lines 18-29.  Each statement is one action.     *)
(* The Naming instance is followed in full; of the tree, what is followed  *)
(* is which statements have worked on it and how many loops Ob_For finds   *)
(* in it.                                                                  *)
(***************************************************************************)

\* Bound: the module handed to Ob_For holds up to MaxMainLoops for loops
\* over a literal range.
MaxMainLoops == 2

\* a main() that obscures the numbers before it lowers the loops
MainStatementsNumbersFirst ==
    << "analyze", "JunkInjector", "FeistelNumberStrategy",
       "XorStringNumberStrategy", "Ob_For", "ConditionalInjector",
       "IdentityFuncInjector", "Renamer", "fix_missing_locations" >>

\* the statements of main() from 'naming.analyze(tree)' on, in source order
MainStatements ==
    << "analyze", "JunkInjector", "Ob_For", "ConditionalInjector",
       "IdentityFuncInjector", "FeistelNumberStrategy",
       "XorStringNumberStrategy", "Renamer", "fix_missing_locations" >>

\* the statement main() is at
Statement ==
    IF main_status = "running" /\ main_line <= Len(MainStatements)
    THEN MainStatements[main_line]
    ELSE "None"

\* the names get_name returned during the step
Minted ==
    [k \in 1..(Len(returned') - Len(returned)) |->
        returned'[Len(returned) + k].name]

\* the statement has run and main() goes on to the next one
Executed(stmt) ==
    /\ main_done' = Append(main_done, [stmt |-> stmt, names |-> Minted])
    /\ main_line' = main_line + 1

\* the statement raised err: main() ends there
Raised(stmt, err) ==
    /\ main_done' = Append(main_done, [stmt |-> stmt, names |-> Minted])
    /\ main_line' = main_line
    /\ main_status' = err

\* The nodes of the modules main() reads from IO/input.py: names that the
\* passes' bases would produce among them.
MainNodes ==
    { [kind |-> "Name",        name |-> "junk1", args |-> <<>>],
      [kind |-> "FunctionDef", name |-> "decode_num0", args |-> <<"i0">>],
      [kind |-> "ClassDef",    name |-> "resolve_collatz0", args |-> <<>>] }

\* The literal-range loops of the module handed to Ob_For, in visit order:
\* "range" for a step other than 0, "zero_step" for range(a, b, 0).
MainLoops ==
    UNION { [1..n -> {"range", "zero_step"}] : n \in 0..MaxMainLoops }

\* ComplexLoopUnwrapper: get_name('__idx') for each loop whose step is not 0
RECURSIVE IdxBases(_)
IdxBases(loops) ==
    IF loops = <<>> THEN <<>>
    ELSE (IF Head(loops) = "range" THEN <<"__idx">> ELSE <<>>)
         \o IdxBases(Tail(loops))

\* ForToWhileGeneric with CollatzStrategy: the bases __init__ asks names for,
\* loop after loop, up to the '// abs(self.step)' that raises for step 0
RECURSIVE CollatzBases(_)
CollatzBases(loops) ==
    IF loops = <<>> THEN [bases |-> <<>>, err |-> "ok"]
    ELSE IF Head(loops) = "zero_step"
         THEN [bases |-> <<"i", "a", "b", "num">>, err |-> "ZeroDivisionError"]
         ELSE LET r == CollatzBases(Tail(loops))
              IN [bases |-> <<"i", "a", "b", "num", "resolve_collatz">>
                            \o r.bases,
                  err |-> r.err]

\* Ob_For(naming, CollatzStrategy).apply(tree) as Naming sees it: the units
\* LoopUnwrapper, ComplexLoopUnwrapper and ForToWhileGeneric in this order
ObForBases(nested, loops) ==
    [bases |-> [k \in 1..nested |-> "__unwrapped_loop"]
               \o IdxBases(loops) \o CollatzBases(loops).bases,
     err |-> CollatzBases(loops).err]

InitMain ==
    /\ used_names = {}
    /\ generated_names = {}
    /\ returned = <<>>
    /\ main_line = 1
    /\ main_done = <<>>
    /\ main_namespace = {}
    /\ main_status = "running"
    /\ IdleNumber
    /\ IdleLoop
    /\ IdleApply
    /\ IdleJunkApply
    /\ IdleRun
    /\ IdleObFor
    /\ IdleIdent
    /\ IdleWrap
    /\ IdleJunk
    /\ IdleRenamer

\* naming = Naming(); naming.analyze(tree)
MainAnalyze ==
    /\ Statement = "analyze"
    /\ \E tree \in SUBSET MainNodes : analyze(tree)
    /\ Executed("analyze")
    /\ UNCHANGED <<main_namespace, main_status, numberVars, loopVars,
                   renamerVars, junkVars, wrapVars, identVars, obforVars, runVars, junkFnVars, applyVars>>

\* tree = JunkInjector(naming, [...], 2).apply(tree)
MainJunkInjector ==
    /\ Statement = "JunkInjector"
    /\ \E num_vars \in 3..5 :
           NamingBecomes(GetNamesFrom(NamingNow,
                                      [k \in 1..num_vars |-> "junk"]))
    /\ Executed("JunkInjector")
    /\ UNCHANGED <<main_namespace, main_status, numberVars, loopVars,
                   renamerVars, junkVars, wrapVars, identVars, obforVars, runVars, junkFnVars, applyVars>>

\* the pass has asked for its names and returned or raised
ObForDone(r) ==
    /\ NamingBecomes(GetNamesFrom(NamingNow, r.bases))
    /\ IF r.err = "ok"
       THEN Executed("Ob_For") /\ UNCHANGED main_status
       ELSE Raised("Ob_For", r.err)

\* tree = Ob_For(naming, CollatzStrategy).apply(tree)
MainObFor ==
    /\ Statement = "Ob_For"
    /\ \E nested \in 0..1, loops \in MainLoops :
           ObForDone(ObForBases(nested, loops))
    /\ UNCHANGED <<main_namespace, numberVars, loopVars, renamerVars,
                   junkVars, wrapVars, identVars, obforVars, runVars, junkFnVars, applyVars>>

\* tree = ConditionalInjector(naming, [RandomConditionalStrategy], 1).apply(tree)
MainConditionalInjector ==
    /\ Statement = "ConditionalInjector"
    /\ UNCHANGED namingVars
    /\ Executed("ConditionalInjector")
    /\ UNCHANGED <<main_namespace, main_status, numberVars, loopVars,
                   renamerVars, junkVars, wrapVars, identVars, obforVars, runVars, junkFnVars, applyVars>>

\* tree = IdentityFuncInjector(MixedIdentityStrategy(), 0.2).apply(tree)
MainIdentityFuncInjector ==
    /\ Statement = "IdentityFuncInjector"
    /\ UNCHANGED namingVars
    /\ Executed("IdentityFuncInjector")
    /\ UNCHANGED <<main_namespace, main_status, numberVars, loopVars,
                   renamerVars, junkVars, wrapVars, identVars, obforVars, runVars, junkFnVars, applyVars>>

\* tree = NumberObscurerInjector(naming, FeistelNumberStrategy).apply(tree)
MainFeistel ==
    /\ Statement = "FeistelNumberStrategy"
    /\ get_name("decode_num")
    /\ Executed("FeistelNumberStrategy")
    /\ UNCHANGED <<main_namespace, main_status, numberVars, loopVars,
                   renamerVars, junkVars, wrapVars, identVars, obforVars, runVars, junkFnVars, applyVars>>

\* tree = NumberObscurerInjector(naming, XorStringNumberStrategy).apply(tree)
MainXorString ==
    /\ Statement = "XorStringNumberStrategy"
    /\ get_name("decode_num")
    /\ Executed("XorStringNumberStrategy")
    /\ UNCHANGED <<main_namespace, main_status, numberVars, loopVars,
                   renamerVars, junkVars, wrapVars, identVars, obforVars, runVars, junkFnVars, applyVars>>

\* tree = Renamer(naming.get_namespace()).apply(tree)
MainRenamer ==
    /\ Statement = "Renamer"
    /\ main_namespace' = get_namespace
    /\ UNCHANGED namingVars
    /\ Executed("Renamer")
    /\ UNCHANGED <<main_status, numberVars, loopVars, renamerVars, junkVars,
                   wrapVars, identVars, obforVars, runVars, junkFnVars, applyVars>>

\* tree = ast.fix_missing_locations(tree), the last statement that works on
\* the tree
MainFixMissingLocations ==
    /\ Statement = "fix_missing_locations"
    /\ UNCHANGED namingVars
    /\ Executed("fix_missing_locations")
    /\ main_status' = "done"
    /\ UNCHANGED <<main_namespace, numberVars, loopVars, renamerVars,
                   junkVars, wrapVars, identVars, obforVars, runVars, junkFnVars, applyVars>>

NextMain ==
    \/ MainAnalyze
    \/ MainJunkInjector
    \/ MainObFor
    \/ MainConditionalInjector
    \/ MainIdentityFuncInjector
    \/ MainFeistel
    \/ MainXorString
    \/ MainRenamer
    \/ MainFixMissingLocations

SpecMain == InitMain /\ [][NextMain]_vars

(***************************************************************************)
(* The properties.                                                         *)
(***************************************************************************)

IntValue(v) == [node |-> "int", value |-> v]

\* 0 <= v < 2^32, stated on the pair
In32BitDomain(v) == v.hi \in 0..65535

\* C2: for the fixed-key 4-round Feistel scheme and every v in [0, 2^32),
\* obfuscate(v) is a call of the decoder on a constant, and the generated
\* decoder applied to that constant returns exactly v.
SimpleFeistelRoundTrip ==
    (strategy.cls = "SimpleFeistel" /\ value # NoValue
        /\ In32BitDomain(value.value))
        => /\ expr.node = "Call"
           /\ expr.func = strategy.decoder_name
           /\ decoded # NoValue => decoded = IntValue(value.value)

\* The literal 42 was encoded to another constant and decoded to 42.
SimpleFeistelWitness ==
    /\ strategy.cls = "SimpleFeistel"
    /\ value = IntValue([hi |-> 0, lo |-> 42])
    /\ expr.node = "Call" /\ expr.arg # value.value
    /\ decoded = IntValue([hi |-> 0, lo |-> 42])

\* C3: for the randomized-key Feistel scheme, every sampled odd multiplier,
\* salt and round count and every v in [0, 2^32), the generated decoder
\* applied to the encoded constant returns exactly v; with no rounds the
\* even/odd de-interleave followed by the re-interleave is v itself.
FeistelRoundTrip ==
    (strategy.cls = "Feistel" /\ value # NoValue
        /\ In32BitDomain(value.value))
        => /\ expr.node = "Call"
           /\ expr.func = strategy.decoder_name
           /\ strategy.salt_mul % 2 = 1
           /\ strategy.rounds = 0 => expr.arg = value.value
           /\ decoded # NoValue => decoded = IntValue(value.value)

\* 2^16 + 42 went through the default three rounds under the multiplier
\* 45771 and a non-zero salt, and came back.
FeistelWitness ==
    /\ strategy.cls = "Feistel"
    /\ strategy.rounds = DefaultRounds
    /\ strategy.salt_mul = 45771 /\ strategy.salt_xor = 65535
    /\ value = IntValue([hi |-> 1, lo |-> 42])
    /\ expr.node = "Call" /\ expr.arg # value.value
    /\ decoded = IntValue([hi |-> 1, lo |-> 42])

\* C4: for the XOR-string scheme, every integer v and every key drawn for the
\* literal, the payload is the pointwise XOR of str(v) with a key of the
\* same length followed by that key, and the generated decoder returns v.
XorStringRoundTrip ==
    (strategy.cls = "XorString" /\ value # NoValue)
        => LET s == Str(IntOf(value.value))
           IN /\ expr.node = "Call"
              /\ expr.func = strategy.decoder_name
              /\ Len(key) = Len(s)
              /\ Len(expr.arg) = 2 * Len(s)
              /\ \A i \in 1..Len(s) :
                    /\ expr.arg[i] = XorBits(s[i], key[i], 8)
                    /\ expr.arg[Len(s) + i] = key[i]
              /\ decoded # NoValue => decoded = IntValue(value.value)

\* -11 was encoded under a key with a byte above 127 and decoded to -11.
XorStringWitness ==
    /\ strategy.cls = "XorString"
    /\ value = IntValue(PairOf(-11))
    /\ key = <<255, 49, 128>>
    /\ decoded = IntValue(PairOf(-11))

\* C5: for both Feistel-style schemes obfuscate(v) of a v < 0 or v >= 2^32
\* is the plain literal v (it evaluates to v, no decoder call), and the call
\* leaves the strategy's attributes and the name registry as they were.
FeistelPassThrough ==
    /\ []((strategy.cls \in {"SimpleFeistel", "Feistel"} /\ value # NoValue
              /\ ~In32BitDomain(value.value))
            => /\ expr = [node |-> "Constant", value |-> value.value]
               /\ decoded # NoValue => decoded = IntValue(value.value))
    /\ [][(value = NoValue /\ value' # NoValue)
            => /\ strategy' = strategy
               /\ namingVars' = namingVars]_vars

\* -1 and 2^32 were each passed through and evaluated by a randomized-key
\* strategy.
FeistelPassThroughWitness ==
    /\ strategy.cls = "Feistel"
    /\ value \in {IntValue([hi |-> -1, lo |-> 65535]), IntValue([hi |-> 65536, lo |-> 0])}
    /\ expr.node = "Constant"
    /\ decoded = value

\* ceil(p / q) for q # 0
CeilDiv(p, q) ==
    IF q > 0 THEN 0 - ((0 - p) \div q) ELSE 0 - (p \div (0 - q))

\* Python's range(start, stop, step) as a sequence
PyRange(start, stop, step) ==
    [k \in 1..Max(0, CeilDiv(stop - start, step)) |-> start + (k - 1) * step]

\* the statements in front of the while statement, and its last statement
EmittedInitial == SubSeq(lowered.body, 1, Len(lowered.body) - 1)
EmittedAdvance == << WhileNode.body[Len(WhileNode.body)] >>

\* C6: for literal (start, stop, step) with step # 0 the Plain lowering
\* initialises the loop variable to start, tests "< stop" for a positive and
\* "> stop" for a negative step and advances by abs(step); the body runs
\* max(0, ceil((stop - start) / step)) times and the loop variable takes the
\* values of range(start, stop, step) in order.
PlainLoopRunsRange ==
    (loop.cls = "Plain" /\ loop.step # 0)
        => LET r == PyRange(loop.start, loop.stop, loop.step)
           IN /\ EmittedInitial =
                    << Assign(loop.loop_var, Constant(loop.start)) >>
              /\ WhileNode.test.left = Name(loop.loop_var)
              /\ WhileNode.test.right = Constant(loop.stop)
              /\ loop.step > 0 =>
                    /\ WhileNode.test.op = "Lt"
                    /\ EmittedAdvance =
                         << AugAssign(loop.loop_var, "Add", Constant(loop.step)) >>
              /\ loop.step < 0 =>
                    /\ WhileNode.test.op = "Gt"
                    /\ EmittedAdvance =
                         << AugAssign(loop.loop_var, "Sub",
                                      Constant(0 - loop.step)) >>
              /\ pc \in {"initial", "test", "body", "done"}
              /\ Len(visited) <= Len(r)
              /\ \A k \in 1..Len(visited) : visited[k] = r[k]
              /\ pc = "body" => Len(visited) < Len(r)
              /\ pc = "done" =>
                    /\ visited = r
                    /\ Len(visited) =
                         Max(0, CeilDiv(loop.stop - loop.start, loop.step))

\* range(4, -4, -3) was lowered and ran to its end over 4, 1, -2.
PlainLoopWitness ==
    /\ loop.cls = "Plain"
    /\ loop.start = 4 /\ loop.stop = -4 /\ loop.step = -3
    /\ pc = "done"
    /\ visited = <<4, 1, -2>>

\* C7: for every N >= 0, a, b, seed and outcome of the gate the Collatz
\* lowered loop runs its body exactly N times and then exits: the forward
\* trajectory from target does not meet seed before the N-th step.
CollatzLoopRunsNTimes ==
    loop.cls = "Collatz"
        => /\ pc = "done" => Len(visited) = loop.n
           /\ (pc = "test" /\ Len(visited) < loop.n)
                 => env[loop.num_var] # loop.seed

\* the emitted advance applied k times to the state st
RECURSIVE AdvanceTimes(_, _)
AdvanceTimes(st, k) ==
    IF k = 0 THEN st
    ELSE AdvanceTimes(ExecBlock(EmittedAdvance, st, lowered.defs), k - 1)

\* C8: for every (a, b, seed, N) and every sequence of gate outcomes, the
\* emitted forward map applied exactly N times to the target that
\* _collatz_forward computed yields seed, negative states included.
CollatzTargetReachesSeed ==
    loop.cls = "Collatz"
        => LET st0 == ExecBlock(EmittedInitial,
                                [env |-> <<>>, out |-> <<>>, status |-> "ok"],
                                lowered.defs)
               stN == AdvanceTimes(st0, loop.n)
           IN /\ st0.status = "ok"
              /\ st0.env[loop.num_var] = loop.target
              /\ stN.status = "ok"
              /\ stN.env[loop.num_var] = loop.seed

\* From seed 26 with a = 5 and b = 11 the simulation went 26, 3, 6, -1 (two
\* reverse branches, a negative target) and the loop ran back to 26.
CollatzTargetWitness ==
    /\ loop.cls = "Collatz"
    /\ loop.a = 5 /\ loop.b = 11 /\ loop.seed = 26
    /\ loop.n = 3 /\ loop.target = -1
    /\ pc = "done"
    /\ env[loop.num_var] = 26

\* C9: the helper is declared with the parameters (a, b, target, num) and
\* called with (a_var, b_var, num_var, target), bound by position; at the
\* k-th body execution (k = 0, 1, ...) the call returns, and returns k.
CollatzIndexRecovered ==
    loop.cls = "Collatz"
        => /\ lowered.defs =
                << FunctionDef(loop.resolve_name, <<"a", "b", "target", "num">>) >>
           /\ WhileNode.body[1] =
                Assign(loop.loop_var,
                       Call(loop.resolve_name,
                            << Name(loop.a_var), Name(loop.b_var),
                               Name(loop.num_var), Constant(loop.target) >>))
           /\ pc \in {"initial", "test", "body", "done"}
           /\ \A k \in 1..Len(visited) : visited[k] = k - 1

\* A loop of six iterations whose target came from at least one reverse
\* branch ran to its end with the indices 0..5.
CollatzIndexWitness ==
    /\ loop.cls = "Collatz"
    /\ loop.n = 6
    /\ loop.target < 64 * loop.seed
    /\ pc = "done"
    /\ visited = <<0, 1, 2, 3, 4, 5>>

\* the names the claim lists: function and class names, the parameters in
\* args.args of functions and lambdas, and the names in Store context
BoundNames(tree) ==
    { tree[k].name : k \in { j \in 1..Len(tree) :
                               \/ tree[j].kind \in {"FunctionDef", "ClassDef"}
                               \/ tree[j].kind = "Name" /\ tree[j].ctx = "Store" } }
    \cup UNION { Range(tree[k].args) :
                   k \in { j \in 1..Len(tree) :
                             tree[j].kind \in {"FunctionDef", "Lambda"} } }

\* C10: the mapping Renamer.apply builds has exactly the collected names as
\* its keys, no two keys share a generated name, and no generated name is in
\* the namespace the constructor was given.
RenamerMappingOneToOne ==
    /\ phase = "constructed" => namespace = get_namespace
    /\ phase = "done" =>
          /\ DOMAIN mapping = BoundNames(module_tree)
          /\ to_rename = BoundNames(module_tree)
          /\ \A k1, k2 \in DOMAIN mapping :
                k1 # k2 => mapping[k1] # mapping[k2]
          /\ \A k \in DOMAIN mapping :
                mapping[k] \in DrawPool /\ mapping[k] \notin get_namespace

\* Three names were mapped although random first produced a name of the
\* namespace and then repeated a name it had already handed out.
RenamerMappingWitness ==
    /\ phase = "done"
    /\ Cardinality(DOMAIN mapping) = 3
    /\ "qwertyui" \in get_namespace
    /\ Len(drawn) = 5
    /\ drawn[1] = "qwertyui"
    /\ drawn[3] = drawn[2]

\* C11: after Renamer.apply every occurrence of a mapped name in the tree -
\* definition, parameter of any kind, call keyword, global declaration,
\* handler or alias name, Name in any context - carries the generated
\* identifier of that name, and none keeps its original text.
RenamerRewritesEveryOccurrence ==
    phase = "done" =>
        \A k \in 1..Len(module_tree) :
            LET old == module_tree[k]
                new == renamed_tree[k]
            IN /\ old.name \in DOMAIN mapping => new.name = mapping[old.name]
               /\ \A j \in 1..Len(old.args) :
                     old.args[j] \in DOMAIN mapping
                        => new.args[j] = mapping[old.args[j]]
               /\ \A j \in 1..Len(old.kwonly) :
                     old.kwonly[j] \in DOMAIN mapping
                        => new.kwonly[j] = mapping[old.kwonly[j]]

\* C12: with every scratch variable declared as 1, after any sequence of
\* junk statements of the four strategies the next junk statement raises no
\* exception; in particular none floor-divides by a scratch variable that
\* is 0.
JunkNeverRaises == junk_status = "ok"

\* C13: every name a junk statement reads or writes in the scope it is
\* injected in is one of the names JunkInjector.__init__ got from
\* Naming.get_name('junk').
JunkTouchesScratchOnly == touched \subseteq Range(junk_vars)

\* the wrappers in the body _inject_in_body returned
Wrappers == { k \in 1..Len(wrap_new_body) : wrap_new_body[k].node = "If" }

IdentityWrapKeepsValue ==
    ident_new.node \notin {"None", "Name", "Constant"} =>
        LET old == EvalT(ident_node, ident_env)
            new == EvalT(ident_new, ident_env)
        IN old.ok => /\ new.ok
                     /\ new.v.type = old.v.type
                     /\ SameValue(new.v, old.v)
                     /\ Truthy(new.v) = Truthy(old.v)

IdentityWrapWitness ==
    /\ ident_cls = "MixedIdentityStrategy"
    /\ ident_node = NameCtx("x", "Load")
    /\ ident_env["x"] = PyBool(FALSE)
    /\ ident_new.node = "BoolOp"
    /\ EvalT(ident_new, ident_env) = Returns(PyBool(FALSE))

\* the for statements among stmts, those nested in them and those in
\* function bodies
RECURSIVE ForNodes(_)
ForNodes(stmts) ==
    IF stmts = <<>> THEN {}
    ELSE (CASE Head(stmts).node = "For" ->
                 {Head(stmts)} \cup ForNodes(Head(stmts).body)
            [] Head(stmts).node \in {"FunctionDef", "While"} ->
                 ForNodes(Head(stmts).body)
            [] OTHER -> {})
         \cup ForNodes(Tail(stmts))

\* the for statements of the input module that do not iterate over a
\* range() call with one to three integer literals
NonRangeLoops == { L \in ForNodes(ob_tree) : ~IsConstantRange(L.iter) }

\* C16: a for loop whose iterable is not a literal range() call is left as
\* it was by every unit of Ob_For.apply (LoopUnwrapper, ComplexLoopUnwrapper,
\* ForToWhileGeneric), also when it is directly nested in another for loop
\* or directly contains one: it is a statement of the module each unit
\* returns, and a module with no other loops comes back as it went in.
NonRangeLoopsUntouched ==
    \A k \in 1..Len(ob_passes) :
        /\ NonRangeLoops \subseteq ForNodes(ob_passes[k].body)
        /\ NonRangeLoops = ForNodes(ob_tree) => ob_passes[k].body = ob_tree

\* the for statements of the input module over a literal range with step 0
ZeroStepLoops ==
    { L \in ForNodes(ob_tree) :
        IsConstantRange(L.iter) /\ ParsedRange(L.iter)[3] = 0 }

\* C17: Ob_For.apply, with PlainStrategy or CollatzStrategy, raises nothing
\* on a module with a for loop over a literal range with step 0 and returns
\* that loop as it was.
ZeroStepLoopBypassed ==
    (ob_status \notin {"idle", "built"} /\ ZeroStepLoops # {}) =>
        /\ ob_status = "done"
        /\ ZeroStepLoops \subseteq ForNodes(ob_passes[Len(ob_passes)].body)

\* the module is one for loop over a literal range with a step other than
\* 0, and ComplexLoopUnwrapper has run on it
NormalizedOne ==
    /\ ob_cls = "Collatz"
    /\ Len(ob_passes) >= 2
    /\ ForNodes(ob_tree) = {ob_tree[1]}
    /\ IsConstantRange(ob_tree[1].iter)
    /\ ParsedRange(ob_tree[1].iter)[3] # 0

\* what a module body prints when run from no variables
Printed(stmts) ==
    ExecBlock(stmts, [env |-> <<>>, out |-> <<>>, status |-> "ok"], <<>>).out

\* C20: ComplexLoopUnwrapper turns "for V in range(start, stop, step)" into
\* "for idx in range(count)" with count the number of values of the range,
\* idx a name Naming had not seen, and "V = start + idx * step" in front of
\* the old body; run, V takes the values of the range in their order.
NormalizedLoopRunsRange ==
    NormalizedOne =>
        LET node == ob_tree[1]
            parsed == ParsedRange(node.iter)
            values == RangeValues(parsed[1], parsed[2], parsed[3])
            new == ob_passes[2].body
            idx == new[1].target
        IN /\ Len(new) = 1
           /\ new[1].node = "For"
           /\ new[1].iter = Call("range", <<Constant(Len(values))>>)
           /\ \E k \in 1..Len(returned) :
                /\ returned[k] =
                      [base |-> "__idx", name |-> idx, wasUsed |-> FALSE]
                /\ \A j \in 1..Len(returned) : returned[j].name = idx => j = k
           /\ new[1].body =
                << Assign(node.target,
                          BinOp(Constant(parsed[1]), "Add",
                                BinOp(Name(idx), "Mult",
                                      Constant(parsed[3])))) >>
                \o node.body
           /\ Printed(new) = values
           /\ Printed(new) = Printed(ob_tree)

NormalizedLoopWitness ==
    /\ NormalizedOne
    /\ ob_tree[1].iter = Call("range", <<Constant(10), Constant(0),
                                        UnaryOp("USub", Constant(2))>>)
    /\ ob_passes[2].body[1].iter = Call("range", <<Constant(5)>>)
    /\ Printed(ob_passes[2].body) = <<10, 8, 6, 4, 2>>
    /\ "__idx0" \in used_names \ generated_names

\* C19: NumberObscurerInjector replaces a constant only when it is an integer
\* literal, and the replacement evaluates to the same integer; every other
\* constant (string, float, None, True, False) is returned unchanged and
\* evaluates to its original value, under each of the four schemes.
OnlyIntegerLiteralsReplaced ==
    decoded # NoValue =>
        /\ decoded = value
        /\ (value.node # "int" => expr = [node |-> "Constant", value |-> value])

\* the places of statement stmt among those main() has run
RanAt(stmt) == { k \in 1..Len(main_done) : main_done[k].stmt = stmt }

\* the statements of main() that hand the tree to a pass
Transformations ==
    { "JunkInjector", "Ob_For", "ConditionalInjector", "IdentityFuncInjector",
      "FeistelNumberStrategy", "XorStringNumberStrategy", "Renamer" }

\* C18: in main(), Naming.analyze has completed before any pass calls
\* get_name, Ob_For runs before every NumberObscurerInjector, and Renamer is
\* the last transformation, given the namespace as it is after every other
\* pass has got its names.
AnalyzeFirstRenamerLast ==
    /\ \A k \in 1..Len(main_done) :
           main_done[k].names # <<>> => \E j \in RanAt("analyze") : j < k
    /\ \A n \in RanAt("FeistelNumberStrategy")
                   \cup RanAt("XorStringNumberStrategy") :
           /\ \E k \in RanAt("Ob_For") : k < n
           /\ \A k \in RanAt("Ob_For") : k < n
    /\ \A r \in RanAt("Renamer") :
           /\ \A k \in 1..Len(main_done) :
                  main_done[k].stmt \in Transformations => k <= r
           /\ main_namespace = get_namespace
           /\ \A k \in 1..Len(main_done) :
                  Range(main_done[k].names) \subseteq main_namespace

\* main() has ended with every pass run, each pass that asks for names
\* having got some, over a module that already used some of their spellings.
AnalyzeFirstRenamerLastWitness ==
    /\ main_status = "done"
    /\ RanAt("Renamer") # {}
    /\ {"junk1", "decode_num0", "i0"} \subseteq main_namespace \ generated_names
    /\ \A s \in {"JunkInjector", "FeistelNumberStrategy",
                 "XorStringNumberStrategy"} :
           \E k \in RanAt(s) : main_done[k].names # <<>>
    /\ \E k \in RanAt("Ob_For") : Len(main_done[k].names) >= 7

\* the while loops of a module body, those in function bodies and in other
\* loops included
RECURSIVE LoweredLoops(_)
LoweredLoops(stmts) ==
    IF stmts = <<>> THEN {}
    ELSE (CASE Head(stmts).node = "While" ->
                 {Head(stmts)} \cup LoweredLoops(Head(stmts).body)
            [] Head(stmts).node \in {"FunctionDef", "For"} ->
                 LoweredLoops(Head(stmts).body)
            [] OTHER -> {})
         \cup LoweredLoops(Tail(stmts))

\* the module Ob_For.apply returned
ObForOutput == ob_passes[Len(ob_passes)]

\* C21: for a module with k >= 1 Collatz-lowered loops, Ob_For.apply injects
\* exactly one index-recovery helper at module scope, and each of the k
\* lowered loops calls that helper.
OneSharedCollatzHelper ==
    (/\ ob_cls = "Collatz"
     /\ ob_status = "done"
     /\ LoweredLoops(ObForOutput.body) # {}) =>
        /\ Len(ObForOutput.defs) = 1
        /\ \A W \in LoweredLoops(ObForOutput.body) :
               W.body[1].value.func = ObForOutput.defs[1].name

\* the statements hold a continue
RECURSIVE HasContinue(_)
HasContinue(stmts) ==
    \E k \in 1..Len(stmts) :
        \/ stmts[k].node = "Continue"
        \/ stmts[k].node \in {"For", "While", "FunctionDef"}
              /\ HasContinue(stmts[k].body)
        \/ stmts[k].node = "If"
              /\ (HasContinue(stmts[k].body) \/ HasContinue(stmts[k].orelse))

\* how the module Ob_For.apply returned runs
RanOutput == ran_passes[Len(ran_passes)]

\* C24: in a loop lowered by ForToWhileGeneric (Plain or Collatz) the advance
\* runs once per iteration on every path through the body, a path through
\* 'continue' included: a loop whose body holds a continue ends after the
\* iterations of the original for loop, the body having seen the same values.
ContinueStillAdvances ==
    (ran_passes # <<>> /\ HasContinue(ob_tree)) =>
        /\ RanOutput.status = ran_input.status
        /\ RanOutput.out = ran_input.out

\* a for statement is directly in the body of another
RECURSIVE HasNestedLoop(_)
HasNestedLoop(stmts) ==
    \E k \in 1..Len(stmts) :
        /\ stmts[k].node \in {"For", "FunctionDef"}
        /\ \/ HasNestedLoop(stmts[k].body)
           \/ /\ stmts[k].node = "For"
              /\ \E j \in 1..Len(stmts[k].body) : stmts[k].body[j].node = "For"

\* C25: after LoopUnwrapper has moved an inner for loop into a module-level
\* function of the outer loop's variable, every variable the inner loop reads
\* has the value it had, and what the inner loop assigns to variables of the
\* scope around it is seen by the code after the call, at module level and in
\* a function: the module runs as before.
FlatteningKeepsBindings ==
    (ran_passes # <<>> /\ HasNestedLoop(ob_tree)) =>
        /\ ran_passes[1].status = ran_input.status
        /\ ran_passes[1].out = ran_input.out
        /\ "total" \in DOMAIN ran_input.globals =>
              /\ "total" \in DOMAIN ran_passes[1].globals
              /\ ran_passes[1].globals["total"] = ran_input.globals["total"]

\* the module is one for loop with a statement after it that reads the loop
\* variable, and the loop runs at least once
ReadsLoopVariableAfter ==
    /\ Len(ob_tree) = 2
    /\ ob_tree[1].node = "For"
    /\ ob_tree[2] = Observe(ob_tree[1].target)
    /\ ran_input.status = "ok"

\* C26: after a lowered loop of at least one iteration, the loop variable's
\* name is bound to the value it has after the original for loop, the last
\* element of the range, under PlainStrategy and under CollatzStrategy: code
\* after the loop that reads it runs as before.
LoopVariableKeptAfterLoop ==
    (ran_passes # <<>> /\ ReadsLoopVariableAfter) =>
        /\ RanOutput.status = "ok"
        /\ RanOutput.out = ran_input.out
        /\ ob_tree[1].target \in DOMAIN RanOutput.globals
        /\ RanOutput.globals[ob_tree[1].target]
             = ran_input.globals[ob_tree[1].target]


\* the statements of the module's function bodies that read or bind a
\* scratch variable
JunkInFunctions ==
    { stmt \in UNION { Range(junk_tree[k].body) :
                          k \in { j \in 1..Len(junk_tree) :
                                     junk_tree[j].node = "FunctionDef" } } :
         StmtNames(stmt) \cap Range(junk_vars) # {} }

\* C23: a junk statement JunkInjector put into a function body runs
\* without error when the function is called: with the declarations
\* 'scratch = 1' at the top of the module, every scratch variable the
\* statement reads is bound in the scope it runs in.
JunkInFunctionRuns ==
    (junk_tree # <<>> /\ JunkInFunctions # {}) => junk_ran.status = "ok"


\* the injector whose apply() returned last
LastInjector == num_applied[Len(num_applied)]
HasDecoder(self) == self.cls # "Template"

\* the statements of the module that define a function of that name
DefsOf(name) ==
    { k \in 1..Len(num_tree) :
         num_tree[k].node = "FunctionDef" /\ num_tree[k].name = name }

\* the functions an expression calls
RECURSIVE CallsIn(_)
CallsIn(e) ==
    IF e.node = "Call"
    THEN {e.func} \cup UNION { CallsIn(e.args[k]) : k \in 1..Len(e.args) }
    ELSE {}

StmtCalls(stmt) == UNION { CallsIn(stmt.nodes[j]) : j \in 1..Len(stmt.nodes) }

\* node a stands where node b stood: b unchanged, or a constant of b
\* replaced by a call of the decoder of that name on one constant
RECURSIVE RewrittenBy(_, _, _)
RewrittenBy(b, a, name) ==
    IF b.node = "Constant"
    THEN \/ a = b
         \/ /\ a.node = "Call"
            /\ a.func = name
            /\ Len(a.args) = 1
            /\ a.args[1].node = "Constant"
    ELSE /\ a.node = "Call"
         /\ a.func = b.func
         /\ Len(a.args) = Len(b.args)
         /\ \A k \in 1..Len(b.args) : RewrittenBy(b.args[k], a.args[k], name)

\* the literals of the module handed to apply() that came back replaced
Rewritten(first) ==
    { kj \in UNION { {k} \X (1..Len(num_before[k].nodes)) :
                        k \in 1..Len(num_before) } :
         num_tree[first + kj[1]].nodes[kj[2]] # num_before[kj[1]].nodes[kj[2]] }

\* C22: one apply() adds at most one statement to the module, the
\* definition of its strategy's decoder, as the first statement; every
\* literal it replaced is now a call of that one decoder; and for every
\* injector applied so far the module holds one definition of its decoder,
\* before every statement that calls it.  This holds after the first
\* injector and after a second one applied to what the first returned.
OneDecoderAtModuleStart ==
    num_applied # <<>> =>
        LET self == LastInjector
            name == IF HasDecoder(self) THEN self.decoder_name ELSE ""
            first == IF HasDecoder(self) THEN 1 ELSE 0
        IN /\ Len(num_tree) = Len(num_before) + first
           /\ HasDecoder(self) =>
                 /\ num_tree[1].node = "FunctionDef"
                 /\ num_tree[1].name = name
           /\ \A k \in 1..Len(num_before) :
                 /\ num_tree[first + k].node = num_before[k].node
                 /\ Len(num_tree[first + k].nodes) = Len(num_before[k].nodes)
                 /\ \A j \in 1..Len(num_before[k].nodes) :
                       RewrittenBy(num_before[k].nodes[j],
                                   num_tree[first + k].nodes[j], name)
           /\ \A i \in 1..Len(num_applied) :
                 HasDecoder(num_applied[i]) =>
                    /\ Cardinality(DefsOf(num_applied[i].decoder_name)) = 1
                    /\ \A k \in 1..Len(num_tree) :
                          num_applied[i].decoder_name \in StmtCalls(num_tree[k])
                             => \E d \in DefsOf(num_applied[i].decoder_name) : d < k

\* a second injector (XorString) was applied to the output of the first
\* (SimpleFeistel): it replaced several literals, those of the first
\* decoder's body and the arguments of the first decoder's calls among them
OneDecoderAtModuleStartWitness ==
    /\ Len(num_applied) = 2
    /\ num_applied[1].cls = "SimpleFeistel"
    /\ num_applied[2].cls = "XorString"
    /\ num_tree[1].name = num_applied[2].decoder_name
    /\ num_tree[2].name = num_applied[1].decoder_name
    /\ num_applied[2].decoder_name \in StmtCalls(num_tree[2])
    /\ Cardinality(Rewritten(1)) >= 12
    /\ \E k \in 3..Len(num_tree) :
          {num_applied[1].decoder_name, num_applied[2].decoder_name}
             \subseteq StmtCalls(num_tree[k])

====
